---- MODULE Spec2Model ----
(***************************************************************************)
(* Connection-pool supervisor of hwcer/cosmo (package health, Manager):    *)
(* health-check loop, single-flight recovery with validated client swap,   *)
(* delayed close of the previous client, and the guarded Execute path.     *)
(***************************************************************************)
EXTENDS Integers, Sequences, FiniteSets, TLC

\* ------------------------------------------------------------------ bounds
\* concurrent callers of Manager.Execute
NumCallers == 1
\* health checks the loop performs (each failed check spawns one goroutine)
MaxChecks == 1
\* client handles that can become the live client, the initial one included
MaxClients == 3
\* healthCheckLoop goroutines that can be started on one manager
MaxLoops == 2

\* Config.RetryDelay values tried, in seconds: 1..MaxRetryDelay
MaxRetryDelay == 3
\* Config.MaxBackoffDelay values tried, in seconds: 1..MaxBackoffCap
MaxBackoffCap == 6
\* ticks one WaitForHealthy call is followed through
MaxPolls == 6
\* condition nodes and native filters given to one Query
MaxNodes == 2
\* Build calls made on one Query
MaxBuilds == 2
\* calls made on one Selector
MaxCalls == 3
\* Where and Primary calls made on one Query before it is rendered
MaxWheres == 1
\* method calls made by the chains that start at one root DB
MaxSteps == 3
\* seconds of the clock that stamps the records of the cached collection
MaxTime == 3
\* changes made to the cached collection, each announced by one event
MaxEvents == 3

\* ------------------------------------------------------- program constants
MaxRetries == 3
WaitHealthyNeededCount == 2
BackoffBase == 2
AttemptOffset == 1
DefaultPageSize == 100

\* ---------------------------------------------------------------- threads
Callers == 1..NumCallers
\* goroutine k is the scc.GO closure spawned by the k-th health check
Gos == (NumCallers + 1)..(NumCallers + MaxChecks)
Threads == Callers \cup Gos
\* slots for the healthCheckLoop goroutines
Loops == 1..MaxLoops

\* ----------------------------------------------------------------- errors
\* An error value: how the driver classifies it, and its message as words.
NilErr == [driver |-> "nil", msg |-> <<>>]
ErrDupKey == [driver |-> "dup", msg |-> <<"E11000", "duplicate", "key">>]
ErrConnReset == [driver |-> "none", msg |-> <<"read", "connection", "reset", "by", "peer">>]
ErrCtx == [driver |-> "none", msg |-> <<"context", "canceled">>]

\* the errors an operation passed to Execute can return
OpErrors == {ErrDupKey, ErrConnReset}

\* strings.Contains on word sequences
Contains(s, k) ==
    \E i \in 0..(Len(s) - Len(k)) : SubSeq(s, i + 1, i + Len(k)) = k

dataTypeErrors ==
    { <<"bad", "value", "type">>, <<"BSON", "type">>, <<"cannot", "convert">>,
      <<"type", "mismatch">>, <<"invalid", "type">> }

errorKeyWords ==
    { <<"connection", "refused">>, <<"connection", "timeout">>,
      <<"server", "selection", "timeout">>, <<"socket", "timeout">>,
      <<"network", "unreachable">>, <<"no", "reachable", "servers">>,
      <<"connection", "reset", "by", "peer">>, <<"i/o", "timeout">>,
      <<"context", "deadline", "exceeded">>, <<"dial", "tcp">>,
      <<"network", "error">> }

IsBusinessError(err) ==
    /\ err # NilErr
    /\ \/ err.driver = "dup"
       \/ \E k \in dataTypeErrors : Contains(err.msg, k)

IsNetworkError(err) ==
    /\ err # NilErr
    /\ \/ err.driver \in {"net", "timeout"}
       \/ \E k \in errorKeyWords : Contains(err.msg, k)

\* fmt.Errorf("...: %w", err): a new error that wraps err
Wrap(err) == [kind |-> "wrap", err |-> err]
Plain(err) == [kind |-> "plain", err |-> err]
NoReturn == [kind |-> "none", err |-> NilErr]

\* ------------------------------------------------------------------ state
VARIABLES
    client,        \* Manager.client: the live client handle (an id)
    closed,        \* handles on which Disconnect has been called
    closers,       \* previous clients whose delayed-close goroutine is pending
    isStarted,     \* Manager.isStarted
    isChecking,    \* Manager.isChecking
    isRecovering,  \* Manager.isRecovering
    failureCount,  \* Manager.failureCount
    metrics,       \* Manager.metrics
    loop,          \* per healthCheckLoop goroutine: its position
    now,           \* PoolManager.CheckNow calls that are running their probes
    rec,           \* per thread: position and locals inside tryRecover
    ex,            \* per caller: position and locals inside Execute
    bk,            \* one recovery run's retry loop: configuration and sleeps
    wt,            \* one WaitForHealthy call: its probes, count and result
    qy,            \* one clause.Query, the documents it shares and renders
    up,            \* one update.Build call: its statement and its result
    sl,            \* one Selector and the calls made on it
    db,            \* a root DB handle and the chains started from it
    ca             \* one Cache, the store it mirrors and the calls made on it

\* the manager and the threads that use it
mvars == <<client, closed, closers, isStarted, isChecking, isRecovering,
           failureCount, metrics, loop, now, rec, ex>>

\* what the specifications of single routines run on
rvars == <<bk, wt, qy, up, sl, db, ca>>

vars == <<mvars, rvars>>

NoClient == 0

RecIdle ==
    [pc |-> "none", err |-> "nil", newClient |-> NoClient,
     newClosed |-> FALSE, oldClient |-> NoClient, pingOK |-> FALSE,
     cmdOK |-> FALSE, swaps |-> 0]

ExIdle ==
    [pc |-> "idle", cancelled |-> FALSE, cur |-> NoClient, err |-> NilErr,
     ops |-> 0, ret |-> NoReturn, healthyCount |-> 0, probe |-> "none",
     wait |-> "none"]

\* health.New: one client built from the URI, all flags and counters zero
New ==
    /\ client = 1
    /\ closed = {}
    /\ closers = {}
    /\ isStarted = FALSE
    /\ isChecking = FALSE
    /\ isRecovering = FALSE
    /\ failureCount = 0
    /\ metrics = [TotalChecks |-> 0, FailedChecks |-> 0,
                  RecoveryAttempts |-> 0, SuccessfulRecoveries |-> 0]
    /\ loop = [l \in Loops |-> "off"]
    /\ now = 0
    /\ rec = [t \in Threads |-> RecIdle]
    /\ ex = [c \in Callers |-> ExIdle]

\* no recovery run's sleeps are being followed
NoBackoff ==
    [pc |-> "none", RetryDelay |-> 0, MaxBackoffDelay |-> 0, attempt |-> 0,
     slept |-> <<>>, tries |-> 0, made |-> 0, err |-> "nil",
     expired |-> FALSE, swapped |-> FALSE]

\* no WaitForHealthy call is being followed
NoWait ==
    [pc |-> "none", healthyCount |-> 0, probes |-> <<>>, ret |-> "none",
     cause |-> "none"]

\* --------------------------------------------------------------- documents
\* A value held in a bson document: a scalar, a slice, or a reference to a
\* map.  Maps are reference values in Go, so a nested map lives in a heap of
\* documents and is held by its address.
Absent == [tag |-> "none", n |-> 0, s |-> "", elems |-> <<>>]
Scalar(x) == [tag |-> "val", n |-> x, s |-> "", elems |-> <<>>]
Str(x) == [tag |-> "str", n |-> 0, s |-> x, elems |-> <<>>]
Nil == [tag |-> "nil", n |-> 0, s |-> "", elems |-> <<>>]
Arr(s) == [tag |-> "arr", n |-> 0, s |-> "", elems |-> s]
Doc(r) == [tag |-> "doc", n |-> r, s |-> "", elems |-> <<>>]

\* the keys a document of a query can hold: field names and operators
DocKeySeq ==
    <<"_id", "Name", "name", "age", "$in", "$nin", "$gt", "$gte", "$or",
      "$lt", "$lte", "$and", "$not", "$nor">>
DocKeys == {DocKeySeq[i] : i \in 1..Len(DocKeySeq)}

\* make(Filter), bson.M{}
EmptyDoc == [k \in DocKeys |-> Absent]

\* complexCondition
complexCondition == <<"or", "and", "not", "nor">>
ComplexTypes == {complexCondition[i] : i \in 1..Len(complexCondition)}

\* no Query is being followed
NoQuery ==
    [pc |-> "none", model |-> "nil", filter |-> Absent, where |-> <<>>,
     complex |-> [t \in ComplexTypes |-> <<>>], natives |-> 0,
     heap |-> <<>>, outs |-> <<>>, multiple |-> <<>>, calls |-> <<>>]

\* ----------------------------------------------------------------- updates
\* An Update maps an operator to a bson.M; what is followed of a bson.M is
\* the set of its keys, and whether the operator has an entry at all.
UpdateOps == {"$set", "$inc", "$unset", "$setOnInsert", "$min"}
NoBucket == [has |-> FALSE, keys |-> {}]
Bucket(ks) == [has |-> TRUE, keys |-> ks]

\* make(Update), Update{}
EmptyUpdate == [t \in UpdateOps |-> NoBucket]

\* the Selector of a new Statement, and one set by Select or Omit
SelectorNone == [selector |-> "None", projection |-> NoBucket]
SelectorOf(mode, ks) == [selector |-> mode, projection |-> Bucket(ks)]

\* no update.Build call is being followed
NoUpdate ==
    [pc |-> "none", kind |-> "int", value |-> EmptyUpdate, schema |-> FALSE,
     zero |-> {}, selector |-> SelectorNone, includeZeroValue |-> FALSE,
     onInsert |-> [impl |-> "none", keys |-> {}],
     update |-> EmptyUpdate, upsert |-> FALSE, err |-> FALSE]

\* no Selector is being followed
NoSelector == [pc |-> "none", selector |-> SelectorNone, calls |-> <<>>]

\* no processor.Execute made yet.  Of the last one the handle, the command,
\* the Error of the handle before it, the steps it took, the Error and the
\* table Parse left, and what PoolManager.Execute was set to do are kept
NoExec ==
    [tx |-> 0, cmd |-> "", before |-> "", trace |-> <<>>, parsed |-> "",
     table |-> "", out |-> "", filter |-> "none", store |-> "", err |-> "",
     conds |-> FALSE]

\* no DB handle is being followed
NoDB ==
    [pc |-> "none", root |-> 0, handles |-> <<>>, tx |-> <<>>,
     Size |-> <<>>, steps |-> 0, exec |-> NoExec]

\* a thread of the cache that has made no call yet.  Of its last call the
\* kind, the record, the timestamp, whether the handle's Reload was invoked
\* and what the call returned are kept
NoCall ==
    [pc |-> "idle", kind |-> "none", id |-> 0, ts |-> 0, called |-> FALSE,
     err |-> ""]

\* no Cache is being followed
NoCache ==
    [pc |-> "none", time |-> 0, dataset |-> <<>>, cursor |-> <<>>,
     store |-> <<>>, clock |-> 0, events |-> <<>>, made |-> 0, th |-> <<>>]

Init ==
    /\ New
    /\ bk = NoBackoff /\ wt = NoWait /\ qy = NoQuery /\ up = NoUpdate
    /\ sl = NoSelector /\ db = NoDB /\ ca = NoCache

\* client.Ping / RunCommand on handle h: any outcome while the handle is
\* connected, an error once it has been disconnected
ProbeResults(h) == IF h \in closed THEN {FALSE} ELSE BOOLEAN


SetRec(t, r) == rec' = [rec EXCEPT ![t] = r]
SetEx(c, e) == ex' = [ex EXCEPT ![c] = e]

\* ------------------------------------------------------ health-check loop
\* scc.CGO(m.healthCheckLoop): one more loop goroutine, in the first free
\* slot; it calls checkHealth at once and then on every tick
startLoop ==
    LET free == {l \in Loops : loop[l] = "off"} IN
    LET l == CHOOSE x \in free : \A y \in free : x <= y IN
    loop' = [loop EXCEPT ![l] = "idle"]

\* Manager.Start: the isStarted swap lets only the first call start the loop
Start ==
    /\ IF isStarted
         THEN UNCHANGED <<isStarted, loop>>
         ELSE isStarted' = TRUE /\ startLoop
    /\ UNCHANGED <<client, closed, closers, isChecking, isRecovering,
                   failureCount, metrics, now, rec, ex>>
    /\ UNCHANGED rvars

\* PoolManager.Start: every call starts a loop goroutine
PoolManagerStart ==
    /\ \E l \in Loops : loop[l] = "off"
    /\ startLoop
    /\ UNCHANGED <<client, closed, closers, isStarted, isChecking,
                   isRecovering, failureCount, metrics, now, rec, ex>>
    /\ UNCHANGED rvars

\* faulty variant: the flag is stored without being tested, so a call that
\* arrives during a check goes on to count and to probe
checkHealthBeginUnguarded(l) ==
    /\ loop[l] \in {"idle", "skipped"}
    /\ metrics.TotalChecks < MaxChecks + Cardinality({k \in Loops : loop[k] = "checking"})
    /\ isChecking' = TRUE
    /\ metrics' = [metrics EXCEPT !.TotalChecks = @ + 1]
    /\ loop' = [loop EXCEPT ![l] = "checking"]
    /\ UNCHANGED <<client, closed, closers, isStarted, isRecovering,
                   failureCount, now, rec, ex>>
    /\ UNCHANGED rvars

\* checkHealth up to the probes, called by loop l: the isChecking swap, then
\* TotalChecks.Add(1). A call that finds the flag set returns at once; the
\* loop is then back in its select ("skipped": idle after a skipped call).
checkHealthBegin(l) ==
    /\ loop[l] \in {"idle", "skipped"}
    /\ IF isChecking
         THEN /\ loop' = [loop EXCEPT ![l] = "skipped"]
              /\ UNCHANGED <<isChecking, metrics>>
         ELSE /\ metrics.TotalChecks < MaxChecks
              /\ isChecking' = TRUE
              /\ metrics' = [metrics EXCEPT !.TotalChecks = @ + 1]
              /\ loop' = [loop EXCEPT ![l] = "checking"]
    /\ UNCHANGED <<client, closed, closers, isStarted, isRecovering,
                   failureCount, now, rec, ex>>
    /\ UNCHANGED rvars

\* performHealthCheck: ping and command round-trip decide, serverStatus is
\* informational only
performHealthCheck(ping, cmd, status) == ping /\ cmd

\* faulty variant: the recovery is run inside the check, which ends (and
\* releases isChecking) only once the recovery has returned
checkHealthEndWaits(l) ==
    /\ loop[l] = "checking"
    /\ LET g == NumCallers + metrics.TotalChecks IN
       \/ /\ rec[g].pc = "none"
          /\ \E ping, cmd, status \in ProbeResults(client) :
               IF performHealthCheck(ping, cmd, status)
                 THEN /\ failureCount' = 0
                      /\ isChecking' = FALSE
                      /\ loop' = [loop EXCEPT ![l] = "idle"]
                      /\ UNCHANGED <<metrics, rec>>
                 ELSE /\ metrics' = [metrics EXCEPT !.FailedChecks = @ + 1]
                      /\ failureCount' = failureCount + 1
                      /\ SetRec(g, [RecIdle EXCEPT !.pc = "enter"])
                      /\ UNCHANGED <<isChecking, loop>>
       \/ /\ rec[g].pc = "ret"
          /\ isChecking' = FALSE
          /\ loop' = [loop EXCEPT ![l] = "idle"]
          /\ UNCHANGED <<failureCount, metrics, rec>>
    /\ UNCHANGED <<client, closed, closers, isStarted, isRecovering, now, ex>>
    /\ UNCHANGED rvars

\* checkHealth from the probes on: counters, the scc.GO(tryRecover) spawn on
\* failure, and the deferred isChecking.Store(false)
checkHealthEnd(l) ==
    /\ loop[l] = "checking"
    /\ \E ping, cmd, status \in ProbeResults(client) :
         IF performHealthCheck(ping, cmd, status)
           THEN /\ failureCount' = 0
                /\ UNCHANGED <<metrics, rec>>
           ELSE /\ metrics' = [metrics EXCEPT !.FailedChecks = @ + 1]
                /\ failureCount' = failureCount + 1
                /\ SetRec(NumCallers + metrics.TotalChecks,
                          [RecIdle EXCEPT !.pc = "enter"])
    /\ isChecking' = FALSE
    /\ loop' = [loop EXCEPT ![l] = "idle"]
    /\ UNCHANGED <<client, closed, closers, isStarted, isRecovering, now, ex>>
    /\ UNCHANGED rvars

\* faulty variant: a panic leaves checkHealth with the flag still set
checkHealthPanicKeepsFlag(l) ==
    /\ loop[l] = "checking"
    /\ loop' = [loop EXCEPT ![l] = "idle"]
    /\ UNCHANGED <<client, closed, closers, isStarted, isChecking,
                   isRecovering, failureCount, metrics, now, rec, ex>>
    /\ UNCHANGED rvars

\* checkHealth panics in its probes: the deferred isChecking.Store(false)
\* runs, then the deferred recover(), and the loop goes on
checkHealthPanic(l) ==
    /\ loop[l] = "checking"
    /\ isChecking' = FALSE
    /\ loop' = [loop EXCEPT ![l] = "idle"]
    /\ UNCHANGED <<client, closed, closers, isStarted, isRecovering,
                   failureCount, metrics, now, rec, ex>>
    /\ UNCHANGED rvars

\* PoolManager.CheckNow: performHealthCheck on the live client, with no
\* look at isChecking and no counter touched
CheckNowBegin ==
    /\ now = 0
    /\ now' = 1
    /\ UNCHANGED <<client, closed, closers, isStarted, isChecking,
                   isRecovering, failureCount, metrics, loop, rec, ex>>
    /\ UNCHANGED rvars

\* CheckNow returns the status its probes gave
CheckNowEnd ==
    /\ now = 1
    /\ \E ping, cmd, status \in ProbeResults(client) :
         performHealthCheck(ping, cmd, status) \in BOOLEAN
    /\ now' = 0
    /\ UNCHANGED <<client, closed, closers, isStarted, isChecking,
                   isRecovering, failureCount, metrics, loop, rec, ex>>
    /\ UNCHANGED rvars

\* --------------------------------------------------------------- recovery
\* a handle no earlier NewClient call has returned
Fresh == client + 1

\* tryRecover returns: its locals are gone
Returned == [RecIdle EXCEPT !.pc = "ret"]

\* faulty variant: the guard stores the flag without testing it
tryRecoverEnterUnguarded(t) ==
    /\ rec[t].pc = "enter"
    /\ isRecovering' = TRUE
    /\ SetRec(t, [rec[t] EXCEPT !.pc = "init"])
    /\ UNCHANGED <<client, closed, closers, isStarted, isChecking,
                   failureCount, metrics, loop, now, ex>>
    /\ UNCHANGED rvars

\* tryRecover, the single-flight guard: isRecovering.Swap(true)
tryRecoverEnter(t) ==
    /\ rec[t].pc = "enter"
    /\ IF isRecovering
         THEN /\ SetRec(t, Returned)
              /\ UNCHANGED isRecovering
         ELSE /\ isRecovering' = TRUE
              /\ SetRec(t, [rec[t] EXCEPT !.pc = "init"])
    /\ UNCHANGED <<client, closed, closers, isStarted, isChecking,
                   failureCount, metrics, loop, now, ex>>
    /\ UNCHANGED rvars

\* faulty variant: a failed command round-trip falls through to the status probe
validateNoContinue(ping, cmd, status) ==
    IF ~ping THEN [err |-> "ping", close |-> TRUE, brk |-> FALSE]
    ELSE [err |-> IF status THEN "nil" ELSE "status", close |-> ~cmd,
          brk |-> TRUE]

\* validation of a freshly built candidate: which error is left in err,
\* whether the candidate is disconnected, and whether the loop breaks
validateCandidate(ping, cmd, status) ==
    IF ~ping THEN [err |-> "ping", close |-> TRUE, brk |-> FALSE]
    ELSE IF ~cmd THEN [err |-> "cmd", close |-> TRUE, brk |-> FALSE]
    ELSE [err |-> IF status THEN "nil" ELSE "status", close |-> FALSE,
          brk |-> TRUE]

\* what one iteration of the retry loop can leave in the locals: NewClient
\* fails (without or with a client), or the candidate goes through validation
attemptOutcomes ==
    { [err |-> "new", newClient |-> NoClient, newClosed |-> FALSE,
       pingOK |-> FALSE, cmdOK |-> FALSE, brk |-> FALSE] }
    \cup
    IF client < MaxClients
      THEN { [err |-> "new", newClient |-> Fresh, newClosed |-> FALSE,
              pingOK |-> FALSE, cmdOK |-> FALSE, brk |-> FALSE] }
           \cup
           { LET v == validateCandidate(ping, cmd, status) IN
             [err |-> v.err, newClient |-> Fresh, newClosed |-> v.close,
              pingOK |-> ping, cmdOK |-> ping /\ cmd, brk |-> v.brk] :
             ping \in BOOLEAN, cmd \in BOOLEAN, status \in BOOLEAN }
      ELSE {}

\* the locals after an iteration that ended as o
afterAttempt(r, o) ==
    [r EXCEPT !.err = o.err, !.newClient = o.newClient,
              !.newClosed = o.newClosed, !.pingOK = o.pingOK,
              !.cmdOK = o.cmdOK]

\* the retry loop, for attempt := 0; attempt <= MaxRetries; attempt++: every
\* way it can end from the locals rs possible at the loop head, as the locals
\* it ends with. It touches no state another goroutine reads, so it is taken
\* as one step.
RECURSIVE retryLoop(_, _)
retryLoop(rs, attempt) ==
    IF attempt > MaxRetries
      THEN { [r EXCEPT !.pc = "after"] : r \in rs }
      ELSE LET ends(brk) ==
                 { afterAttempt(r, o) :
                   r \in rs, o \in { x \in attemptOutcomes : x.brk = brk } }
           IN  \* ctx.Err() != nil: return
               { Returned }
               \cup \* break: the candidate passed ping and command
               { [n EXCEPT !.pc = "after"] : n \in ends(TRUE) }
               \cup \* continue: the next attempt
               retryLoop(ends(FALSE), attempt + 1)

\* faulty variant: the run is not counted in RecoveryAttempts
tryRecoverRunUncounted(t) ==
    /\ rec[t].pc = "init"
    /\ \E r \in retryLoop({[rec[t] EXCEPT !.oldClient = client,
                                          !.err = "nil",
                                          !.newClient = NoClient]}, 0) :
         /\ SetRec(t, r)
         /\ isRecovering' = IF r.pc = "ret" THEN FALSE ELSE isRecovering
    /\ UNCHANGED <<client, closed, closers, isStarted, isChecking,
                   failureCount, metrics, loop, now, ex>>
    /\ UNCHANGED rvars

\* tryRecover from the guard to the end of the retry loop:
\* RecoveryAttempts.Add(1), oldClient := m.client, the loop, and the deferred
\* flag clear when the loop returns
tryRecoverRun(t) ==
    /\ rec[t].pc = "init"
    /\ metrics' = [metrics EXCEPT !.RecoveryAttempts = @ + 1]
    /\ \E r \in retryLoop({[rec[t] EXCEPT !.oldClient = client,
                                          !.err = "nil",
                                          !.newClient = NoClient]}, 0) :
         /\ SetRec(t, r)
         /\ isRecovering' = IF r.pc = "ret" THEN FALSE ELSE isRecovering
    /\ UNCHANGED <<client, closed, closers, isStarted, isChecking,
                   failureCount, loop, now, ex>>
    /\ UNCHANGED rvars

\* faulty variant: the check after the loop is missing
recoveryNeverFailed(err) == FALSE

\* the check after the loop: a non-nil err means every attempt failed
recoveryFailed(err) == err # "nil"

\* faulty variant: the previous client is disconnected in the swap itself
tryRecoverAfterClosesNow(t) ==
    /\ rec[t].pc = "after"
    /\ IF recoveryFailed(rec[t].err)
         THEN /\ SetRec(t, Returned)
              /\ isRecovering' = FALSE
              /\ UNCHANGED <<client, closed>>
         ELSE /\ client' = rec[t].newClient
              /\ closed' = closed \cup {client}
              /\ SetRec(t, [rec[t] EXCEPT !.pc = "swapped",
                                          !.oldClient = client,
                                          !.swaps = @ + 1])
              /\ UNCHANGED isRecovering
    /\ UNCHANGED <<closers, isStarted, isChecking, failureCount, metrics,
                   loop, now, ex>>
    /\ UNCHANGED rvars

\* after the loop: give up when err is set, else replace the live client and
\* spawn the delayed close of the previous one
tryRecoverAfter(t) ==
    /\ rec[t].pc = "after"
    /\ IF recoveryFailed(rec[t].err)
         THEN /\ SetRec(t, Returned)
              /\ isRecovering' = FALSE
              /\ UNCHANGED <<client, closers>>
         ELSE /\ client' = rec[t].newClient
              /\ closers' = closers \cup {client}
              /\ SetRec(t, [rec[t] EXCEPT !.pc = "swapped",
                                          !.oldClient = client,
                                          !.swaps = @ + 1])
              /\ UNCHANGED isRecovering
    /\ UNCHANGED <<closed, isStarted, isChecking, failureCount, metrics,
                   loop, now, ex>>
    /\ UNCHANGED rvars

\* faulty variant: the failure counter is left as it is
keepFailures(n) == n

\* the failure counter after a successful recovery
resetFailures(n) == 0

\* SuccessfulRecoveries.Add(1), failureCount.Store(0), deferred flag clear
tryRecoverFinish(t) ==
    /\ rec[t].pc = "swapped"
    /\ metrics' = [metrics EXCEPT !.SuccessfulRecoveries = @ + 1]
    /\ failureCount' = resetFailures(failureCount)
    /\ isRecovering' = FALSE
    /\ SetRec(t, Returned)
    /\ UNCHANGED <<client, closed, closers, isStarted, isChecking, loop, now,
                   ex>>
    /\ UNCHANGED rvars

\* the goroutine spawned after a swap: after CloseDelay, disconnect the
\* previous client unless it is the live one again
closeOldClient(h) ==
    /\ h \in closers
    /\ closers' = closers \ {h}
    /\ closed' = IF h = client THEN closed ELSE closed \cup {h}
    /\ UNCHANGED <<client, isStarted, isChecking, isRecovering,
                   failureCount, metrics, loop, now, rec, ex>>
    /\ UNCHANGED rvars

\* ------------------------------------------------------- guarded execute
\* what operation(h) can return: an error once h has been disconnected
OpResults(h) == IF h \in closed THEN OpErrors ELSE OpErrors \cup {NilErr}

\* Execute returns r: its locals are gone, the model keeps the first error,
\* the number of invocations, what IsHealthy and WaitForHealthy answered,
\* and the returned value
Done(c, r) == [ExIdle EXCEPT !.pc = "done", !.err = ex[c].err,
                             !.ops = ex[c].ops, !.probe = ex[c].probe,
                             !.wait = ex[c].wait, !.ret = r]

\* the caller's context is cancelled. After Execute's second check the
\* context is consulted only by WaitForHealthy's select, which
\* WaitForHealthyTimeout covers.
ctxCancel(c) ==
    /\ ex[c].pc \in {"idle", "op"}
    /\ ~ex[c].cancelled
    /\ SetEx(c, [ex[c] EXCEPT !.cancelled = TRUE])
    /\ UNCHANGED <<client, closed, closers, isStarted, isChecking,
                   isRecovering, failureCount, metrics, loop, now, rec>>
    /\ UNCHANGED rvars

\* Execute entry: the first context check, then the read of m.client that is
\* handed to the operation
ExecuteBegin(c) ==
    /\ ex[c].pc = "idle"
    /\ IF ex[c].cancelled
         THEN SetEx(c, Done(c, Plain(ErrCtx)))
         ELSE SetEx(c, [ex[c] EXCEPT !.pc = "op", !.cur = client])
    /\ UNCHANGED <<client, closed, closers, isStarted, isChecking,
                   isRecovering, failureCount, metrics, loop, now, rec>>
    /\ UNCHANGED rvars

\* faulty variant: the context is not looked at after the operation
ExecuteOpUnchecked(c) ==
    /\ ex[c].pc = "op"
    /\ \E r \in OpResults(ex[c].cur) :
         IF r = NilErr
           THEN SetEx(c, [Done(c, Plain(NilErr)) EXCEPT !.ops = @ + 1])
           ELSE SetEx(c, [ex[c] EXCEPT !.pc = "probe", !.err = r,
                                       !.ops = @ + 1, !.cur = NoClient])
    /\ UNCHANGED <<client, closed, closers, isStarted, isChecking,
                   isRecovering, failureCount, metrics, loop, now, rec>>
    /\ UNCHANGED rvars

\* the operation returns; nil ends the call, an error is followed by the
\* second context check
ExecuteOp(c) ==
    /\ ex[c].pc = "op"
    /\ \E r \in OpResults(ex[c].cur) :
         IF r = NilErr
           THEN SetEx(c, [Done(c, Plain(NilErr)) EXCEPT !.ops = @ + 1])
           ELSE IF ex[c].cancelled
             THEN SetEx(c, [Done(c, Plain(ErrCtx)) EXCEPT !.ops = @ + 1,
                                                          !.err = r])
             ELSE SetEx(c, [ex[c] EXCEPT !.pc = "probe", !.err = r,
                                         !.ops = @ + 1, !.cur = NoClient])
    /\ UNCHANGED <<client, closed, closers, isStarted, isChecking,
                   isRecovering, failureCount, metrics, loop, now, rec>>
    /\ UNCHANGED rvars

\* faulty variant: the quick probe's answer is ignored
afterProbeAlwaysRecover(healthy) == "recover"

\* what Execute does with the quick probe's answer: return the original
\* error, or go on to tryRecover
afterProbe(healthy) == IF healthy THEN "done" ELSE "recover"

\* IsHealthy after a failed operation
ExecuteProbe(c) ==
    /\ ex[c].pc = "probe"
    /\ \E healthy \in ProbeResults(client) :
         IF afterProbe(healthy) = "done"
           THEN /\ SetEx(c, [Done(c, Plain(ex[c].err)) EXCEPT
                                !.probe = IF healthy THEN "healthy"
                                                     ELSE "unhealthy"])
                /\ UNCHANGED rec
           ELSE /\ SetEx(c, [ex[c] EXCEPT
                                !.pc = "recover",
                                !.probe = IF healthy THEN "healthy"
                                                     ELSE "unhealthy"])
                /\ SetRec(c, [RecIdle EXCEPT !.pc = "enter"])
    /\ UNCHANGED <<client, closed, closers, isStarted, isChecking,
                   isRecovering, failureCount, metrics, loop, now>>
    /\ UNCHANGED rvars

\* the caller's own tryRecover call has returned and WaitForHealthy runs
Waiting(c) == ex[c].pc = "recover" /\ rec[c].pc = "ret"

\* faulty variant: a failed probe leaves the count as it is
countWithoutReset(count, healthy) == IF healthy THEN count + 1 ELSE count

\* WaitForHealthy, one tick: the consecutive count after a probe
nextHealthyCount(count, healthy) == IF healthy THEN count + 1 ELSE 0

WaitForHealthyTick(c) ==
    /\ Waiting(c)
    /\ \E healthy \in ProbeResults(client) :
         LET n == nextHealthyCount(ex[c].healthyCount, healthy) IN
         SetEx(c, [ex[c] EXCEPT
                 !.healthyCount = n,
                 !.wait = IF healthy /\ n >= WaitHealthyNeededCount
                            THEN "ok" ELSE @,
                 !.pc = IF healthy /\ n >= WaitHealthyNeededCount
                          THEN "retry" ELSE @])
    /\ UNCHANGED <<client, closed, closers, isStarted, isChecking,
                   isRecovering, failureCount, metrics, loop, now, rec>>
    /\ UNCHANGED rvars

\* faulty variant: the original error is returned bare
returnOriginal(err) == Plain(err)

\* what Execute returns when WaitForHealthy gives up
cannotRecover(err) == Wrap(err)

\* WaitForHealthy's timeout (or the caller's context) wins the select
WaitForHealthyTimeout(c) ==
    /\ Waiting(c)
    /\ SetEx(c, [Done(c, cannotRecover(ex[c].err)) EXCEPT !.wait = "timeout"])
    /\ UNCHANGED <<client, closed, closers, isStarted, isChecking,
                   isRecovering, failureCount, metrics, loop, now, rec>>
    /\ UNCHANGED rvars

\* faulty variant: the retry uses the handle the manager was built with
retryInitialClient(c) == 1

\* the client handed to the retried operation
retryClient(c) == client

\* the retry: operation(m.client) reads the live client again
ExecuteRetry(c) ==
    /\ ex[c].pc = "retry"
    /\ SetEx(c, [ex[c] EXCEPT !.pc = "op2", !.cur = retryClient(c)])
    /\ UNCHANGED <<client, closed, closers, isStarted, isChecking,
                   isRecovering, failureCount, metrics, loop, now, rec>>
    /\ UNCHANGED rvars

\* the retried operation returns and its result is Execute's result
ExecuteRetryOp(c) ==
    /\ ex[c].pc = "op2"
    /\ \E r \in OpResults(ex[c].cur) :
         SetEx(c, [Done(c, Plain(r)) EXCEPT !.ops = @ + 1])
    /\ UNCHANGED <<client, closed, closers, isStarted, isChecking,
                   isRecovering, failureCount, metrics, loop, now, rec>>
    /\ UNCHANGED rvars

\* ---------------------------------------------------------- specification
Next ==
    \/ Start
    \/ \E l \in Loops : checkHealthBegin(l)
    \/ \E l \in Loops : checkHealthEnd(l)
    \/ \E l \in Loops : checkHealthPanic(l)
    \/ \E t \in Threads : tryRecoverEnter(t)
    \/ \E t \in Threads : tryRecoverRun(t)
    \/ \E t \in Threads : tryRecoverAfter(t)
    \/ \E t \in Threads : tryRecoverFinish(t)
    \/ \E h \in 1..MaxClients : closeOldClient(h)
    \/ \E c \in Callers : ctxCancel(c)
    \/ \E c \in Callers : ExecuteBegin(c)
    \/ \E c \in Callers : ExecuteOp(c)
    \/ \E c \in Callers : ExecuteProbe(c)
    \/ \E c \in Callers : WaitForHealthyTick(c)
    \/ \E c \in Callers : WaitForHealthyTimeout(c)
    \/ \E c \in Callers : ExecuteRetry(c)
    \/ \E c \in Callers : ExecuteRetryOp(c)

Spec == Init /\ [][Next]_vars

\* ------------------------------------------------- the retry loop's sleeps
\* b to the power e for e >= 0
RECURSIVE intPow(_, _)
intPow(b, e) == IF e = 0 THEN 1 ELSE b * intPow(b, e - 1)

\* time.Duration(math.Pow(float64(b), float64(e))) for b >= 1: the float is
\* truncated, so a negative exponent gives 0 unless b is 1
powDuration(b, e) ==
    IF e >= 0 THEN intPow(b, e) ELSE IF b = 1 THEN 1 ELSE 0

\* faulty variant: the cap is not applied
backoffUncapped(attempt, retryDelay, maxBackoffDelay) ==
    powDuration(BackoffBase, attempt - AttemptOffset) * retryDelay

\* the sleep before retry number attempt (attempt > 0)
backoffDelay(attempt, retryDelay, maxBackoffDelay) ==
    LET d == powDuration(BackoffBase, attempt - AttemptOffset) * retryDelay IN
    IF d > maxBackoffDelay THEN maxBackoffDelay ELSE d

\* one recovery run is followed through its retry loop, under a
\* configuration with the retry delay and the cap drawn from their ranges
InitBackoff ==
    /\ New
    /\ bk \in { [NoBackoff EXCEPT !.pc = "loop", !.RetryDelay = d,
                                  !.MaxBackoffDelay = m] :
                 d \in 1..MaxRetryDelay, m \in 1..MaxBackoffCap }
    /\ wt = NoWait
    /\ qy = NoQuery
    /\ up = NoUpdate
    /\ sl = NoSelector
    /\ db = NoDB
    /\ ca = NoCache

\* the loop head finds the run's context expired: return
recoverTimedOut ==
    /\ bk.pc = "loop"
    /\ bk' = [bk EXCEPT !.pc = "ret", !.expired = TRUE]
    /\ UNCHANGED <<mvars, wt, qy, up, sl, db, ca>>

\* faulty variant: a validated candidate does not end the loop
iterationNeverBreaks(newOK, ping, cmd, status) ==
    IF ~newOK THEN [err |-> "new", close |-> FALSE, brk |-> FALSE]
    ELSE [validateCandidate(ping, cmd, status) EXCEPT !.brk = FALSE]

\* how one iteration ends: NewClient fails, or the candidate it built goes
\* through validation
iteration(newOK, ping, cmd, status) ==
    IF ~newOK THEN [err |-> "new", close |-> FALSE, brk |-> FALSE]
    ELSE validateCandidate(ping, cmd, status)

\* one iteration: on a retry the backoff sleep, then NewClient and the
\* validation, which end in continue or in break
recoverAttempt ==
    /\ bk.pc = "loop"
    /\ \E newOK, ping, cmd, status \in BOOLEAN :
         LET slept == IF bk.attempt > 0
                        THEN Append(bk.slept,
                                    backoffDelay(bk.attempt, bk.RetryDelay,
                                                 bk.MaxBackoffDelay))
                        ELSE bk.slept
             v == iteration(newOK, ping, cmd, status)
             made == IF newOK THEN bk.made + 1 ELSE bk.made
         IN IF v.brk
              THEN bk' = [bk EXCEPT !.slept = slept, !.pc = "after",
                                    !.tries = @ + 1, !.made = made,
                                    !.err = v.err]
              ELSE bk' = [bk EXCEPT !.slept = slept, !.attempt = @ + 1,
                                    !.tries = @ + 1, !.made = made,
                                    !.err = v.err,
                                    !.pc = IF bk.attempt + 1 > MaxRetries
                                             THEN "after" ELSE "loop"]
    /\ UNCHANGED <<mvars, wt, qy, up, sl, db, ca>>

\* after the loop: give up when err is set, else replace the live client
recoverAfter ==
    /\ bk.pc = "after"
    /\ bk' = [bk EXCEPT !.pc = "ret", !.swapped = ~recoveryFailed(bk.err)]
    /\ UNCHANGED <<mvars, wt, qy, up, sl, db, ca>>

NextBackoff == recoverTimedOut \/ recoverAttempt \/ recoverAfter

SpecBackoff == InitBackoff /\ [][NextBackoff]_vars

\* the goroutine that runs tryRecover keeps being scheduled, and its sleeps
\* and probes return
SpecBackoffFair == SpecBackoff /\ WF_vars(NextBackoff)

\* ----------------------------------------------------- one WaitForHealthy
\* a WaitForHealthy call with every probe it makes kept, on a connection
\* whose quick probe can answer either way at each tick
InitWait ==
    /\ New
    /\ bk = NoBackoff
    /\ wt = [NoWait EXCEPT !.pc = "poll"]
    /\ qy = NoQuery
    /\ up = NoUpdate
    /\ sl = NoSelector
    /\ db = NoDB
    /\ ca = NoCache

\* case <-checkTicker.C: one quick probe; the count goes up or back to zero,
\* and the call returns true once the count reaches the needed number
waitTick ==
    /\ wt.pc = "poll"
    /\ Len(wt.probes) < MaxPolls
    /\ \E healthy \in BOOLEAN :
         LET n == nextHealthyCount(wt.healthyCount, healthy) IN
         wt' = [wt EXCEPT !.probes = Append(@, healthy),
                          !.healthyCount = n,
                          !.pc = IF healthy /\ n >= WaitHealthyNeededCount
                                   THEN "done" ELSE @,
                          !.ret = IF healthy /\ n >= WaitHealthyNeededCount
                                    THEN "true" ELSE @]
    /\ UNCHANGED <<mvars, bk, qy, up, sl, db, ca>>

\* case <-timeoutCtx.Done(): the timeout has elapsed or the caller's context
\* has ended; the call returns false
waitGiveUp ==
    /\ wt.pc = "poll"
    /\ \E cause \in {"timeout", "ctx"} :
         wt' = [wt EXCEPT !.pc = "done", !.ret = "false", !.cause = cause]
    /\ UNCHANGED <<mvars, bk, qy, up, sl, db, ca>>

NextWait == waitTick \/ waitGiveUp

SpecWait == InitWait /\ [][NextWait]_vars

\* cosmo.PoolManager, the supervisor's background side: Start has no
\* isStarted guard and CheckNow is public; checkHealth, tryRecover and the
\* delayed close are the code of Manager
NextPoolManager ==
    \/ PoolManagerStart
    \/ \E l \in Loops : checkHealthBegin(l)
    \/ \E l \in Loops : checkHealthEnd(l)
    \/ CheckNowBegin
    \/ CheckNowEnd
    \/ \E t \in Gos : tryRecoverEnter(t)
    \/ \E t \in Gos : tryRecoverRun(t)
    \/ \E t \in Gos : tryRecoverAfter(t)
    \/ \E t \in Gos : tryRecoverFinish(t)
    \/ \E h \in 1..MaxClients : closeOldClient(h)

SpecPoolManager == Init /\ [][NextPoolManager]_vars

\* ------------------------------------------------------------ clause.Query
\* values of the condition nodes added to the Query
NodeValues == {Scalar(2)}
\* operators of the condition nodes, as Eq, In and Gt pass them to Query.any
NodeOps == {"", "$in", "$gt"}
\* field names of the condition nodes: a struct field name and a store name
NodeKeys == {"Name", "name"}
\* native filters given to Where, by the value they hold for "name":
\* Filter{"name": 1}, Filter{"name": bson.M{"$in": []interface{}{1}}},
\* Filter{"name": bson.M{"$gt": 1}}
NativeKinds == {"val", "$in", "$gt"}

operationArray == {"$in", "$nin"}

\* utils.ToBson succeeds: the value is a map, and the map itself is returned
IsBson(v) == v.tag = "doc"

\* utils.ToArray: the elements of a slice, any other value alone
ToArray(v) == IF v.tag = "arr" THEN v.elems ELSE <<v>>

\* s, _ := x.([]interface{}): nil when x is not such a slice
AsSlice(x) == IF x.tag = "arr" THEN x.elems ELSE <<>>

\* the operator key of a bucket: "$" + t
DollarKey(t) ==
    CASE t = "or" -> "$or" [] t = "and" -> "$and" [] t = "not" -> "$not"
      [] t = "nor" -> "$nor"

\* Filter.Any on the map at address f of heap h; t carries its "$" prefix
FilterAny(h, f, t, k, v) ==
    LET old == h[f][k]
        fresh == Len(h) + 1
        h1 == IF old = Absent
                THEN Append([h EXCEPT ![f][k] = Doc(fresh)], EmptyDoc)
                ELSE IF IsBson(old)
                       THEN h
                       ELSE Append([h EXCEPT ![f][k] = Doc(fresh)],
                                   [EmptyDoc EXCEPT !["$in"] = Arr(<<old>>)])
        data == IF old # Absent /\ IsBson(old) THEN old.n ELSE fresh
        x == h1[data][t]
    IN IF t \in operationArray
         THEN IF x = Absent
                THEN [h1 EXCEPT ![data][t] = Arr(ToArray(v))]
                ELSE [h1 EXCEPT ![data][t] = Arr(AsSlice(x) \o ToArray(v))]
         ELSE [h1 EXCEPT ![data][t] = v]

\* Filter.Eq
FilterEq(h, f, k, v) ==
    IF h[f][k] = Absent THEN [h EXCEPT ![f][k] = v]
                        ELSE FilterAny(h, f, "$in", k, v)

\* Filter.Match
FilterMatch(h, f, t, v) ==
    LET key == DollarKey(t)
        x == h[f][key]
    IN IF x = Absent
         THEN [h EXCEPT ![f][key] = Arr(ToArray(v))]
         ELSE [h EXCEPT ![f][key] = Arr(AsSlice(x) \o ToArray(v))]

\* Filter.Merge: the entries of src are copied, the values they hold are not
FilterMerge(h, f, src) ==
    [h EXCEPT ![f] = [k \in DocKeys |->
                        IF h[src][k] # Absent THEN h[src][k] ELSE h[f][k]]]

\* model.LookUpField(k).DBName() under the schema of a struct whose field
\* Name is stored as "name"; k itself when there is no model
DBName(model, k) == IF model = "schema" /\ k = "Name" THEN "name" ELSE k

\* build: one node rendered into the map at f
build(model, h, f, node) ==
    LET k == DBName(model, node.k) IN
    IF node.t = "$" THEN FilterEq(h, f, k, node.v)
                    ELSE FilterAny(h, f, node.t, k, node.v)

\* for _, node := range q.where { build(model, filter, node) }
RECURSIVE buildWhere(_, _, _, _, _)
buildWhere(model, h, f, nodes, i) ==
    IF i > Len(nodes) THEN h
    ELSE buildWhere(model, build(model, h, f, nodes[i]), f, nodes, i + 1)

\* for _, node := range q.complex[t]: a map of its own, attached with Match
RECURSIVE buildBucket(_, _, _, _, _, _)
buildBucket(model, h, f, t, nodes, i) ==
    IF i > Len(nodes) THEN h
    ELSE LET v == Len(h) + 1
             h1 == build(model, Append(h, EmptyDoc), v, nodes[i])
         IN buildBucket(model, FilterMatch(h1, f, t, Doc(v)), f, t, nodes,
                        i + 1)

\* for _, t := range complexCondition
RECURSIVE buildComplex(_, _, _, _, _)
buildComplex(model, h, f, complex, j) ==
    IF j > Len(complexCondition) THEN h
    ELSE LET t == complexCondition[j] IN
         buildComplex(model, buildBucket(model, h, f, t, complex[t], 1), f,
                      complex, j + 1)

\* Query.Build: the heap after the call and the address of the map returned
Build(q) ==
    LET f == Len(q.heap) + 1
        h0 == Append(q.heap, EmptyDoc)
        h1 == IF q.filter # Absent THEN FilterMerge(h0, f, q.filter.n) ELSE h0
        h2 == buildWhere(q.model, h1, f, q.where, 1)
        h3 == buildComplex(q.model, h2, f, q.complex, 1)
    IN [heap |-> h3, out |-> f]

\* the document a value stands for, every map it reaches written out with
\* its keys in one fixed order: what a structural comparison looks at
RECURSIVE Deref(_, _)
RECURSIVE DerefDoc(_, _, _)
Deref(h, v) ==
    IF v.tag = "doc"
      THEN [tag |-> "doc", n |-> 0, s |-> "",
            elems |-> DerefDoc(h, h[v.n], 1)]
      ELSE IF v.tag = "arr"
             THEN Arr([i \in 1..Len(v.elems) |-> Deref(h, v.elems[i])])
             ELSE v
DerefDoc(h, d, i) ==
    IF i > Len(DocKeySeq) THEN <<>>
    ELSE LET k == DocKeySeq[i] IN
         (IF d[k] = Absent THEN <<>>
          ELSE <<[tag |-> "key", n |-> 0, s |-> k,
                  elems |-> <<Deref(h, d[k])>>]>>)
         \o DerefDoc(h, d, i + 1)

\* Query.Len plus the native filters given to Where
QueryCalls(q) ==
    LET RECURSIVE sum(_)
        sum(j) == IF j > Len(complexCondition) THEN 0
                  ELSE Len(q.complex[complexCondition[j]]) + sum(j + 1)
    IN Len(q.where) + sum(1) + q.natives

\* clause.New, and the schema every Build of this Query is given
InitQuery ==
    /\ New
    /\ bk = NoBackoff
    /\ wt = NoWait
    /\ qy \in { [NoQuery EXCEPT !.pc = "open", !.model = m] :
                 m \in {"nil", "schema"} }
    /\ up = NoUpdate
    /\ sl = NoSelector
    /\ db = NoDB
    /\ ca = NoCache

\* Query.any, called by Eq, In and Gt: the node is appended to q.where
QueryAny(t, k, v) ==
    /\ qy.pc = "open"
    /\ qy.outs = <<>>
    /\ QueryCalls(qy) < MaxNodes
    /\ qy' = [qy EXCEPT !.where =
                 Append(@, [t |-> IF t = "" THEN "$" ELSE t, k |-> k, v |-> v])]
    /\ UNCHANGED <<mvars, bk, wt, up, sl, db, ca>>

\* Query.match, called by OR, AND, NOT and NOR with one node
QueryMatch(b, t, k, v) ==
    /\ qy.pc = "open"
    /\ qy.outs = <<>>
    /\ QueryCalls(qy) < MaxNodes
    /\ qy' = [qy EXCEPT !.complex[b] =
                 Append(@, [t |-> IF t = "" THEN "$" ELSE t, k |-> k, v |-> v])]
    /\ UNCHANGED <<mvars, bk, wt, up, sl, db, ca>>

\* Query.Where(Filter): the caller's map becomes q.filter, or is merged into
\* it when there is one already
QueryWhereFilter(kind) ==
    /\ qy.pc = "open"
    /\ qy.outs = <<>>
    /\ QueryCalls(qy) < MaxNodes
    /\ LET nested == Len(qy.heap) + 1
           h1 == IF kind = "val" THEN qy.heap
                 ELSE Append(qy.heap,
                             [EmptyDoc EXCEPT ![kind] =
                                 IF kind \in operationArray
                                   THEN Arr(<<Scalar(1)>>) ELSE Scalar(1)])
           k == Len(h1) + 1
           h2 == Append(h1, [EmptyDoc EXCEPT !["name"] =
                                IF kind = "val" THEN Scalar(1)
                                                ELSE Doc(nested)])
       IN qy' = [qy EXCEPT
                   !.natives = @ + 1,
                   !.filter = IF qy.filter = Absent THEN Doc(k) ELSE @,
                   !.heap = IF qy.filter = Absent THEN h2
                            ELSE FilterMerge(h2, qy.filter.n, k)]
    /\ UNCHANGED <<mvars, bk, wt, up, sl, db, ca>>

\* Query.Build(model); the document as it is at its return is kept beside
\* its address
QueryBuild ==
    /\ qy.pc = "open"
    /\ Len(qy.outs) < MaxBuilds
    /\ LET b == Build(qy) IN
       qy' = [qy EXCEPT !.heap = b.heap,
                        !.outs = Append(@, [doc |-> b.out,
                                            was |-> Deref(b.heap, Doc(b.out))])]
    /\ UNCHANGED <<mvars, bk, wt, up, sl, db, ca>>

NextQuery ==
    \/ \E t \in NodeOps, k \in NodeKeys, v \in NodeValues : QueryAny(t, k, v)
    \/ \E b \in ComplexTypes, t \in NodeOps, k \in NodeKeys, v \in NodeValues :
         QueryMatch(b, t, k, v)
    \/ \E kind \in NativeKinds : QueryWhereFilter(kind)
    \/ QueryBuild

SpecQuery == InitQuery /\ [][NextQuery]_vars

\* ------------------------------------------------------------ update.Build
\* keys of the maps given to Build: a struct field name of the model and a
\* name the model does not have
MapKeys == {"Name", "nick"}
\* store names of the model's fields other than the primary key
ModelFields == {"name", "lv"}
MongoPrimaryName == "_id"

projectionField == {"$set", "$inc"}

\* Schema.LookUpField(k).DBName for a model with the fields Id, Name and Lv;
\* "" when the model has no such field
LookUpField(k) ==
    CASE k \in {"Name", "name"} -> "name"
      [] k \in {"Lv", "lv"} -> "lv"
      [] k \in {"Id", MongoPrimaryName} -> MongoPrimaryName
      [] OTHER -> ""

\* Update.Any, which Update.Set calls with "$set"
UpdateAny(u, t, k) == [u EXCEPT ![t] = Bucket(@.keys \cup {k})]

\* Update.MSet, through which NewFromMap fills a new Update
MSet(u, ks) == [u EXCEPT !["$set"] = Bucket(@.keys \cup ks)]

\* Update.Projection: the keys under the operators of projectionField
Projection(u) == UNION {u[m].keys : m \in projectionField}

\* Update.Transform: the four operators it knows, with every key the model
\* has replaced by its store name; no key of the maps tried holds a "."
Transform(u) ==
    [t \in UpdateOps |->
        IF t \in {"$set", "$inc", "$unset", "$setOnInsert"} /\ u[t].has
          THEN Bucket({LookUpField(k) : k \in {x \in u[t].keys :
                                                  LookUpField(x) # ""}})
          ELSE NoBucket]

\* Selector.Has
Has(sel, key) ==
    IF ~sel.projection.has THEN TRUE
    ELSE IF sel.selector = "Omit" THEN key \notin sel.projection.keys
                                  ELSE key \in sel.projection.keys

\* parseMap
parseMap(st) ==
    LET r == CASE st.kind = "Update" -> [update |-> st.value, err |-> FALSE]
               [] st.kind = "map[string]any" ->
                    [update |-> MSet(EmptyUpdate, st.value["$set"].keys),
                     err |-> FALSE]
               [] OTHER -> [update |-> EmptyUpdate, err |-> TRUE]
    IN IF r.err THEN r
       ELSE IF st.schema THEN [r EXCEPT !.update = Transform(r.update)]
                         ELSE r

\* faulty variant: a zero value is never set
parseStructOmitsZero(st) ==
    LET set == {k \in ModelFields \cup {MongoPrimaryName} :
                   /\ k # MongoPrimaryName
                   /\ Has(st.selector, k)
                   /\ k \notin st.zero}
        u == IF set = {} THEN EmptyUpdate
                         ELSE [EmptyUpdate EXCEPT !["$set"] = Bucket(set)]
    IN CASE st.onInsert.impl = "none" -> [update |-> u, err |-> FALSE]
         [] st.onInsert.impl = "err" -> [update |-> u, err |-> TRUE]
         [] OTHER ->
              [update |-> IF st.onInsert.keys # {}
                            THEN [u EXCEPT !["$setOnInsert"] =
                                               Bucket(st.onInsert.keys)]
                            ELSE u,
               err |-> FALSE]

\* parseStruct: sch.Range over every field of the model; st.zero holds the
\* fields whose value is the zero value
parseStruct(st) ==
    LET set == {k \in ModelFields \cup {MongoPrimaryName} :
                   /\ k # MongoPrimaryName
                   /\ Has(st.selector, k)
                   /\ (st.includeZeroValue \/ k \notin st.zero)}
        u == IF set = {} THEN EmptyUpdate
                         ELSE [EmptyUpdate EXCEPT !["$set"] = Bucket(set)]
    IN CASE st.onInsert.impl = "none" -> [update |-> u, err |-> FALSE]
         [] st.onInsert.impl = "err" -> [update |-> u, err |-> TRUE]
         [] OTHER ->
              [update |-> IF st.onInsert.keys # {}
                            THEN [u EXCEPT !["$setOnInsert"] =
                                               Bucket(st.onInsert.keys)]
                            ELSE u,
               err |-> FALSE]

\* faulty variant: every declared key is kept
filterSetOnInsertKeepsAll(data, update) == data

\* filterSetOnInsert
filterSetOnInsert(data, update) == data \ Projection(update)

\* Build, after parseMap or parseStruct has returned r
buildUpdate(st) ==
    LET r == CASE st.kind = "struct" -> parseStruct(st)
               [] st.kind = "int" -> [update |-> EmptyUpdate, err |-> TRUE]
               [] OTHER -> parseMap(st)
        u == r.update
        kept == filterSetOnInsert(u["$setOnInsert"].keys, u)
    IN IF r.err THEN [update |-> u, upsert |-> FALSE, err |-> TRUE]
       ELSE IF u["$setOnInsert"].has
         THEN IF kept # {}
                THEN [update |-> [u EXCEPT !["$setOnInsert"] = Bucket(kept)],
                      upsert |-> TRUE, err |-> FALSE]
                ELSE [update |-> [u EXCEPT !["$setOnInsert"] = NoBucket],
                      upsert |-> FALSE, err |-> FALSE]
         ELSE [update |-> u, upsert |-> FALSE, err |-> FALSE]

\* the statements Build is called with
UpdateValues ==
    [UpdateOps -> {NoBucket} \cup {Bucket(ks) : ks \in SUBSET MapKeys}]
MapStatements ==
    { [NoUpdate EXCEPT !.kind = "Update", !.value = v, !.schema = s] :
        v \in UpdateValues, s \in BOOLEAN }
    \cup
    { [NoUpdate EXCEPT !.kind = "map[string]any", !.schema = s,
                       !.value = MSet(EmptyUpdate, ks)] :
        ks \in SUBSET MapKeys, s \in BOOLEAN }
    \cup
    { [NoUpdate EXCEPT !.kind = k] : k \in {"map[string]int", "int"} }
Selectors ==
    {SelectorNone}
    \cup {SelectorOf(m, ks) : m \in {"Select", "Omit"},
                              ks \in SUBSET ModelFields}
OnInserts ==
    {[impl |-> i, keys |-> {}] : i \in {"none", "err"}}
    \cup {[impl |-> "map", keys |-> ks] : ks \in SUBSET ModelFields}
StructStatements ==
    { [NoUpdate EXCEPT !.kind = "struct", !.schema = s, !.zero = z,
                       !.selector = sel, !.includeZeroValue = i,
                       !.onInsert = o] :
        s \in BOOLEAN, z \in SUBSET (ModelFields \cup {MongoPrimaryName}),
        sel \in Selectors, i \in BOOLEAN, o \in OnInserts }

InitUpdate ==
    /\ New
    /\ bk = NoBackoff
    /\ wt = NoWait
    /\ qy = NoQuery
    /\ up \in { [st EXCEPT !.pc = "call"] :
                 st \in MapStatements \cup StructStatements }
    /\ sl = NoSelector
    /\ db = NoDB
    /\ ca = NoCache

\* update.Build(stmt)
UpdateBuild ==
    /\ up.pc = "call"
    /\ LET r == buildUpdate(up) IN
       up' = [up EXCEPT !.pc = "done", !.update = r.update,
                        !.upsert = r.upsert, !.err = r.err]
    /\ UNCHANGED <<mvars, bk, wt, qy, sl, db, ca>>

NextUpdate == UpdateBuild

SpecUpdate == InitUpdate /\ [][NextUpdate]_vars

\* ----------------------------------------------------------------- Selector
\* Selector.Select: the selector after the call and the value returned
Select(sel, columns) ==
    IF sel.selector = "Omit" THEN [sel |-> sel, ok |-> FALSE]
    ELSE [sel |-> SelectorOf("Select",
                             (IF sel.selector = "None"
                                THEN {} ELSE sel.projection.keys)
                             \cup columns),
          ok |-> TRUE]

\* faulty variant: Omit does not look at the mode
OmitUnchecked(sel, columns) ==
    [sel |-> SelectorOf("Omit", sel.projection.keys \cup columns),
     ok |-> TRUE]

\* Selector.Omit
Omit(sel, columns) ==
    IF sel.selector = "Select" THEN [sel |-> sel, ok |-> FALSE]
    ELSE [sel |-> SelectorOf("Omit",
                             (IF sel.selector = "None"
                                THEN {} ELSE sel.projection.keys)
                             \cup columns),
          ok |-> TRUE]

\* Selector.Release
Release(sel) == SelectorNone

\* faulty variant: zero-ness is never looked at
IsIgnoresZero(sel, key, isZero) ==
    IF sel.selector = "Select" THEN key \in sel.projection.keys
                               ELSE key \notin sel.projection.keys

\* Selector.Is
Is(sel, key, isZero) ==
    IF Cardinality(sel.projection.keys) = 0 THEN ~isZero
    ELSE IF sel.selector = "Select" THEN key \in sel.projection.keys
                                    ELSE key \notin sel.projection.keys

\* one call on the selector, as kept in sl.calls
Call(op, columns, isZero, ok, after) ==
    [op |-> op, columns |-> columns, isZero |-> isZero, ok |-> ok,
     before |-> sl.selector, after |-> after]

\* the Selector of a new Statement
InitSelector ==
    /\ New
    /\ bk = NoBackoff
    /\ wt = NoWait
    /\ qy = NoQuery
    /\ up = NoUpdate
    /\ sl = [NoSelector EXCEPT !.pc = "open"]
    /\ db = NoDB
    /\ ca = NoCache

SelectorSelect(columns) ==
    /\ sl.pc = "open"
    /\ Len(sl.calls) < MaxCalls
    /\ LET r == Select(sl.selector, columns) IN
       sl' = [sl EXCEPT !.selector = r.sel,
                        !.calls = Append(@, Call("Select", columns, FALSE,
                                                 r.ok, r.sel))]
    /\ UNCHANGED <<mvars, bk, wt, qy, up, db, ca>>

SelectorOmit(columns) ==
    /\ sl.pc = "open"
    /\ Len(sl.calls) < MaxCalls
    /\ LET r == Omit(sl.selector, columns) IN
       sl' = [sl EXCEPT !.selector = r.sel,
                        !.calls = Append(@, Call("Omit", columns, FALSE,
                                                 r.ok, r.sel))]
    /\ UNCHANGED <<mvars, bk, wt, qy, up, db, ca>>

SelectorRelease ==
    /\ sl.pc = "open"
    /\ Len(sl.calls) < MaxCalls
    /\ sl' = [sl EXCEPT !.selector = Release(sl.selector),
                        !.calls = Append(@, Call("Release", {}, FALSE, TRUE,
                                                 Release(sl.selector)))]
    /\ UNCHANGED <<mvars, bk, wt, qy, up, db, ca>>

SelectorIs(key, isZero) ==
    /\ sl.pc = "open"
    /\ Len(sl.calls) < MaxCalls
    /\ sl' = [sl EXCEPT !.calls =
                 Append(@, Call("Is", {key}, isZero,
                                Is(sl.selector, key, isZero), sl.selector))]
    /\ UNCHANGED <<mvars, bk, wt, qy, up, db, ca>>

NextSelector ==
    \/ \E columns \in SUBSET ModelFields : SelectorSelect(columns)
    \/ \E columns \in SUBSET ModelFields : SelectorOmit(columns)
    \/ SelectorRelease
    \/ \E key \in ModelFields, isZero \in BOOLEAN : SelectorIs(key, isZero)

SpecSelector == InitSelector /\ [][NextSelector]_vars

\* Query.Build of src/unnamed/part_007: it returns before the loops when
\* q.where is empty, and keeps the map it rendered as q.filter
BuildCaching(q) ==
    LET f == Len(q.heap) + 1
        h0 == Append(q.heap, EmptyDoc)
        h1 == IF q.filter # Absent THEN FilterMerge(h0, f, q.filter.n) ELSE h0
        h2 == buildWhere(q.model, h1, f, q.where, 1)
        h3 == buildComplex(q.model, h2, f, q.complex, 1)
    IN IF Len(q.where) = 0
         THEN [heap |-> h1, out |-> f, filter |-> q.filter]
         ELSE [heap |-> h3, out |-> f, filter |-> Doc(f)]

QueryBuildCaching ==
    /\ qy.pc = "open"
    /\ Len(qy.outs) < MaxBuilds
    /\ LET b == BuildCaching(qy) IN
       qy' = [qy EXCEPT !.heap = b.heap,
                        !.filter = b.filter,
                        !.outs = Append(@, [doc |-> b.out,
                                            was |-> Deref(b.heap, Doc(b.out))])]
    /\ UNCHANGED <<mvars, bk, wt, up, sl, db, ca>>

\* a Query rendered by the Build of part_007
NextQueryCaching ==
    \/ \E t \in NodeOps, k \in NodeKeys, v \in NodeValues : QueryAny(t, k, v)
    \/ \E b \in ComplexTypes, t \in NodeOps, k \in NodeKeys, v \in NodeValues :
         QueryMatch(b, t, k, v)
    \/ \E kind \in NativeKinds : QueryWhereFilter(kind)
    \/ QueryBuildCaching

SpecQueryCaching == InitQuery /\ [][NextQueryCaching]_vars

\* ------------------------------------------------------------ Query.Where
\* A Go string is named by a TLA+ string; its characters, which Contains,
\* Split and Trim look at, are in this table.
Spelling ==
    "name" :> <<"n", "a", "m", "e">>
    @@ "age" :> <<"a", "g", "e">>
    @@ "_id" :> <<"_", "i", "d">>
    @@ "MAIN" :> <<"M", "A", "I", "N">>
    @@ "?" :> <<"?">>
    @@ "John" :> <<"J", "o", "h", "n">>
    @@ "NIN" :> <<"N", "I", "N">>
    @@ "IN" :> <<"I", "N">>
    @@ "!=" :> <<"!", "=">>
    @@ "<>" :> <<"<", ">">>
    @@ ">=" :> <<">", "=">>
    @@ "<=" :> <<"<", "=">>
    @@ ">" :> <<">">>
    @@ "<" :> <<"<">>
    @@ "=" :> <<"=">>
    @@ "age > ? AND name = ?" :>
         <<"a", "g", "e", " ", ">", " ", "?", " ", "A", "N", "D", " ", "n",
           "a", "m", "e", " ", "=", " ", "?">>
    @@ "name=?" :> <<"n", "a", "m", "e", "=", "?">>
    @@ "age IN ?" :> <<"a", "g", "e", " ", "I", "N", " ", "?">>
    @@ "name = ? OR age >= ?" :>
         <<"n", "a", "m", "e", " ", "=", " ", "?", " ", "O", "R", " ", "a",
           "g", "e", " ", ">", "=", " ", "?">>

\* the string with the given characters; "??" for one the table lacks
Atom(cs) ==
    IF \E x \in DOMAIN Spelling : Spelling[x] = cs
      THEN CHOOSE x \in DOMAIN Spelling : Spelling[x] = cs
      ELSE "??"

\* strings.Index, from 1; 0 when sep does not occur in s
Index(s, sep) ==
    IF Contains(s, sep)
      THEN CHOOSE i \in 1..(Len(s) - Len(sep) + 1) :
              /\ SubSeq(s, i, i + Len(sep) - 1) = sep
              /\ \A j \in 1..(i - 1) : SubSeq(s, j, j + Len(sep) - 1) # sep
      ELSE 0

\* strings.Split for a non-empty sep
RECURSIVE Split(_, _)
Split(s, sep) ==
    IF ~Contains(s, sep) THEN <<s>>
    ELSE LET i == Index(s, sep) IN
         <<SubSeq(s, 1, i - 1)>> \o Split(SubSeq(s, i + Len(sep), Len(s)), sep)

\* strings.Trim(s, sqlConditionSplit)
RECURSIVE Trim(_)
Trim(s) ==
    IF s = <<>> THEN s
    ELSE IF Head(s) = " " THEN Trim(Tail(s))
    ELSE IF s[Len(s)] = " " THEN Trim(SubSeq(s, 1, Len(s) - 1))
    ELSE s

whereConditionArr == <<"NIN", "IN", "!=", "<>", ">=", "<=", ">", "<", "=">>

isArrCondition(k) == k = "IN" \/ k = "NIN"

\* whereConditionSql[k]: IN and NIN between two spaces, the others bare
whereConditionSql(k) ==
    IF isArrCondition(k) THEN <<" ">> \o Spelling[k] \o <<" ">>
                         ELSE Spelling[k]

\* "$" + whereConditionMongo[w]
whereConditionMongo(w) ==
    CASE w = "=" -> "$"
      [] w \in {"!=", "<>", "NIN"} -> "$nin"
      [] w = ">=" -> "$gte"
      [] w = "<=" -> "$lte"
      [] w = ">" -> "$gt"
      [] w = "<" -> "$lt"
      [] w = "IN" -> "$in"

\* whereComplexMap[k]: the upper-case word between two spaces
whereComplexMap(k) ==
    CASE k = "or" -> <<" ", "O", "R", " ">>
      [] k = "and" -> <<" ", "A", "N", "D", " ">>
      [] k = "not" -> <<" ", "N", "O", "T", " ">>
      [] k = "nor" -> <<" ", "N", "O", "R", " ">>

\* IsQueryFormat
IsQueryFormat(s) ==
    \E i \in 1..Len(whereConditionArr) :
        Contains(s, Spelling[whereConditionArr[i]])

\* the first index of seq whose element satisfies Test; 0 if there is none
FirstOf(seq, Test(_)) ==
    IF \E i \in 1..Len(seq) : Test(seq[i])
      THEN CHOOSE i \in 1..Len(seq) :
              Test(seq[i]) /\ \A j \in 1..(i - 1) : ~Test(seq[j])
      ELSE 0

\* formatWhereValue: none of the literals tried carries a type prefix such
\* as "int(", so the literal stays the string it is
formatWhereValue(r) == Str(Atom(r))

\* faulty variant: a "?" is not replaced by the argument
parseWherePairKeepsMark(pair, w, v) ==
    LET arr == Split(pair, Spelling[w]) IN
    IF Len(arr) # 2 THEN <<>>
    ELSE <<[t |-> whereConditionMongo(w),
            k |-> Atom(Trim(arr[1])),
            v |-> formatWhereValue(Trim(arr[2]))]>>

\* a []*Node of one node, or of none when parseWherePair returns nil
parseWherePair(pair, w, v) ==
    LET arr == Split(pair, Spelling[w]) IN
    IF Len(arr) # 2 THEN <<>>
    ELSE LET r == Trim(arr[2]) IN
         <<[t |-> whereConditionMongo(w),
            k |-> Atom(Trim(arr[1])),
            v |-> IF r = <<"?">> THEN v ELSE formatWhereValue(r)]>>

\* the loop of formClause over the pairs from i on, argIndex arguments used
RECURSIVE clauseNodes(_, _, _, _)
clauseNodes(arr, i, args, argIndex) ==
    IF i > Len(arr) THEN <<>>
    ELSE LET pair == arr[i]
             takes == Contains(pair, <<"?">>) /\ argIndex < Len(args)
             v == IF takes THEN args[argIndex + 1] ELSE Nil
             hit(w) == Contains(pair, whereConditionSql(w))
             wi == FirstOf(whereConditionArr, hit)
         IN (IF wi = 0 THEN <<>>
             ELSE parseWherePair(pair, whereConditionArr[wi], v))
            \o clauseNodes(arr, i + 1, args,
                           IF takes THEN argIndex + 1 ELSE argIndex)

\* formClause: the bucket the nodes go to and the nodes
formClause(query, args) ==
    LET in(k) == Contains(query, whereComplexMap(k))
        ci == FirstOf(complexCondition, in)
        arr == IF ci = 0 THEN <<query>>
               ELSE Split(query, whereComplexMap(complexCondition[ci]))
        whereType == IF ci = 0 THEN "and" ELSE complexCondition[ci]
    IN [whereType |-> whereType, nodes |-> clauseNodes(arr, 1, args, 0)]

\* case string, int, ..., float64 of formPrimary and formString
IsBasic(v) == v.tag \in {"val", "str"}

\* formPrimary, as the node it adds
formPrimary(i) ==
    [t |-> IF IsBasic(i) THEN "$" ELSE "$in", k |-> MongoPrimaryName,
     v |-> i]

\* formString
formString(k, v) == [t |-> IF IsBasic(v) THEN "$" ELSE "$in", k |-> k, v |-> v]

\* Query.Where for a format that is a string, a number or a slice: the
\* bucket the call adds to ("and" is q.where) and the nodes it adds
Where(format, cons) ==
    IF format.tag = "str"
      THEN IF IsQueryFormat(Spelling[format.s])
             THEN formClause(Spelling[format.s], cons)
             ELSE [whereType |-> "and",
                   nodes |-> IF Len(cons) = 0 THEN <<formPrimary(format)>>
                             ELSE IF Len(cons) = 1
                                    THEN <<formString(format.s, cons[1])>>
                                    ELSE <<formString(format.s, Arr(cons))>>]
      ELSE [whereType |-> "and",
            nodes |-> IF Len(cons) = 0 THEN <<formPrimary(format)>> ELSE <<>>]

\* Multiple, on the map at f
Multiple(h, f) ==
    IF h[f][MongoPrimaryName] = Absent THEN TRUE
    ELSE h[f][MongoPrimaryName].tag = "doc"

\* strings given to Where as a field name or as a key value
BareStrings == {"name", "MAIN"}
\* strings given to Where as conditions
ClauseStrings ==
    {"age > ? AND name = ?", "name=?", "age IN ?", "name = ? OR age >= ?"}
\* the formats and the argument lists Where is called with
WhereFormats ==
    {Str(x) : x \in BareStrings \cup ClauseStrings}
    \cup {Scalar(42), Arr(<<Scalar(1), Scalar(2), Scalar(3)>>)}
WhereArgs ==
    {<<>>, <<Scalar(18)>>, <<Arr(<<Scalar(1), Scalar(2)>>)>>,
     <<Scalar(18), Str("John")>>}
\* the values Query.Primary is called with
PrimaryValues == {Scalar(42), Arr(<<Scalar(1), Scalar(2), Scalar(3)>>)}

\* Query.Where(format, cons...); the call and what it added are kept
QueryWhere(format, cons) ==
    /\ qy.pc = "open"
    /\ qy.outs = <<>>
    /\ Len(qy.calls) < MaxWheres
    /\ LET r == Where(format, cons) IN
       qy' = [qy EXCEPT
                !.where = IF r.whereType = "and" THEN @ \o r.nodes ELSE @,
                !.complex = IF r.whereType = "and" THEN @
                            ELSE [@ EXCEPT ![r.whereType] = @ \o r.nodes],
                !.calls = Append(@, [format |-> format, cons |-> cons,
                                     whereType |-> r.whereType,
                                     nodes |-> r.nodes])]
    /\ UNCHANGED <<mvars, bk, wt, up, sl, db, ca>>

\* Query.Primary(v): Eq on the primary key
QueryPrimary(v) ==
    /\ qy.pc = "open"
    /\ qy.outs = <<>>
    /\ Len(qy.calls) < MaxWheres
    /\ LET node == [t |-> "$", k |-> MongoPrimaryName, v |-> v] IN
       qy' = [qy EXCEPT
                !.where = Append(@, node),
                !.calls = Append(@, [format |-> Str("Primary"),
                                     cons |-> <<v>>, whereType |-> "and",
                                     nodes |-> <<node>>])]
    /\ UNCHANGED <<mvars, bk, wt, up, sl, db, ca>>

\* Multiple(filter) on the document the latest Build returned
QueryMultiple ==
    /\ qy.pc = "open"
    /\ Len(qy.multiple) < Len(qy.outs)
    /\ qy' = [qy EXCEPT !.multiple =
                 Append(@, Multiple(qy.heap, qy.outs[Len(@) + 1].doc))]
    /\ UNCHANGED <<mvars, bk, wt, up, sl, db, ca>>

\* a Query filled through Where and Primary, rendered, and classified
NextWhere ==
    \/ \E format \in WhereFormats, cons \in WhereArgs : QueryWhere(format, cons)
    \/ \E v \in PrimaryValues : QueryPrimary(v)
    \/ QueryBuild
    \/ QueryMultiple

SpecWhere == InitQuery /\ [][NextWhere]_vars

\* ---------------------------------------------------------------------- DB
\* DB handles live in db.handles and are held by their index; db.root is the
\* handle made by cosmo.New.  A chain is a caller that starts at the root
\* and calls each method on the handle the previous method returned to it.
Chains == {1, 2}

\* the Paging made by NewStatement for handle h, and the one chain c passes
OwnPaging(h) == [of |-> "stmt", id |-> h]
ArgPaging(c) == [of |-> "arg", id |-> c]
Pagings ==
    {OwnPaging(h) : h \in 1..(Cardinality(Chains) + 1)}
        \cup {ArgPaging(c) : c \in Chains}

\* NewStatement, for handle h; the Clause is followed by the number of Where
\* calls made on it, the orders by their number
NewStatement(h) ==
    [model |-> "nil", value |-> "nil", table |-> "", Clause |-> 0,
     Paging |-> OwnPaging(h), schema |-> "nil", orders |-> 0,
     upsert |-> FALSE, selector |-> SelectorNone, multiple |-> FALSE,
     updateAndModifyModel |-> FALSE]

\* DB.getInstance on handle h: the handle to work on, and the handles after
getInstance(d, h) ==
    IF d.handles[h].clone THEN [d |-> d, tx |-> h]
    ELSE LET n == Len(d.handles) + 1 IN
         [d |-> [d EXCEPT !.handles =
                     Append(@, [Error |-> "", clone |-> TRUE,
                                stmt |-> NewStatement(n)])],
          tx |-> n]

\* DB.Errorf
Errorf(d, h, e) == [d EXCEPT !.handles[h].Error = e]

\* DB.Model
Model(d, h, value, modify) ==
    LET g == getInstance(d, h) IN
    [d |-> [g.d EXCEPT !.handles[g.tx].stmt.model = value,
                       !.handles[g.tx].stmt.updateAndModifyModel =
                           IF modify THEN TRUE ELSE @],
     tx |-> g.tx]

\* DB.Table
Table(d, h, name) ==
    LET g == getInstance(d, h) IN
    [d |-> [g.d EXCEPT !.handles[g.tx].stmt.table = name], tx |-> g.tx]

\* DB.Upsert
Upsert(d, h) ==
    LET g == getInstance(d, h) IN
    [d |-> [g.d EXCEPT !.handles[g.tx].stmt.upsert = TRUE], tx |-> g.tx]

\* DB.Multiple
DBMultiple(d, h) ==
    LET g == getInstance(d, h) IN
    [d |-> [g.d EXCEPT !.handles[g.tx].stmt.multiple = TRUE], tx |-> g.tx]

\* DB.Omit
DBOmit(d, h, columns) ==
    LET g == getInstance(d, h)
        r == Omit(g.d.handles[g.tx].stmt.selector, columns)
    IN  [d |-> [g.d EXCEPT !.handles[g.tx].stmt.selector = r.sel,
                           !.handles[g.tx].Error =
                               IF r.ok THEN @ ELSE "ErrOmitOnSelectsExist"],
         tx |-> g.tx]

\* DB.Select
DBSelect(d, h, columns) ==
    LET g == getInstance(d, h)
        r == Select(g.d.handles[g.tx].stmt.selector, columns)
    IN  [d |-> [g.d EXCEPT !.handles[g.tx].stmt.selector = r.sel,
                           !.handles[g.tx].Error =
                               IF r.ok THEN @ ELSE "ErrSelectOnOmitsExist"],
         tx |-> g.tx]

\* DB.Where
DBWhere(d, h) ==
    LET g == getInstance(d, h) IN
    [d |-> [g.d EXCEPT !.handles[g.tx].stmt.Clause = @ + 1], tx |-> g.tx]

\* DB.Order
Order(d, h) ==
    LET g == getInstance(d, h) IN
    [d |-> [g.d EXCEPT !.handles[g.tx].stmt.orders = @ + 1], tx |-> g.tx]

\* DB.Limit: the Size of the Paging the Statement points to
Limit(d, h, limit) ==
    LET g == getInstance(d, h) IN
    [d |-> [g.d EXCEPT !.Size[g.d.handles[g.tx].stmt.Paging] = limit],
     tx |-> g.tx]

\* schema.Parse: the schema of a model or value, "nil" when it has none
schemaParse(dest) == IF dest \in {"User", "Untabled"} THEN dest ELSE "nil"

\* Schema.Table: a Tabler can name no table
SchemaTable(sch) == IF sch = "User" THEN "user" ELSE ""

\* Statement.Parse on the Statement of handle h
Parse(d, h) ==
    LET x == d.handles[h]
        s == x.stmt
    IN
    IF x.Error # "" THEN d
    ELSE IF s.value = "nilptr" THEN Errorf(d, h, "ErrInvalidValue")
    ELSE
      LET sch == IF s.schema # "nil" THEN s.schema
                 ELSE IF s.model # "nil" THEN schemaParse(s.model)
                 ELSE IF s.table = "" THEN schemaParse(s.value)
                 ELSE "nil"
          err == IF s.schema = "nil" /\ s.model # "nil"
                    /\ schemaParse(s.model) = "nil"
                 THEN "ErrUnsupportedDataType" ELSE ""
          d1 == [d EXCEPT !.handles[h].stmt.schema = sch,
                          !.handles[h].Error = err]
      IN  IF err # "" THEN d1
          ELSE IF s.table # "" THEN d1
          ELSE IF sch # "nil"
               THEN [d1 EXCEPT !.handles[h].stmt.table = SchemaTable(sch)]
          ELSE Errorf(d1, h, "database table name is nil")

\* PoolManager.Execute as processor.Execute sees it: with a cancelled
\* context the operation is not run, otherwise it is run and its error, if
\* any, comes back
PoolOutcomes == {"cancelled", "ok", "fail"}

\* what a command did: the filter it rendered ("none" when it rendered none,
\* else "empty" or "conds"), the call it issued against the collection and the
\* error it returned
Did(filter, store, err) == [filter |-> filter, store |-> store, err |-> err]

\* Query.Build on the Clause of a Statement: empty without conditions
Rendered(s) == IF s.Clause = 0 THEN "empty" ELSE "conds"

\* the error a call against the collection returns
StoreErr(out) == IF out = "ok" THEN "" ELSE out

\* update.Build on the value of a Statement: the error it returns
BuildErr(s) == IF s.value \in {"User", "map"} THEN "" ELSE "type error"

\* cmdUpdate
cmdUpdate(s, out) ==
    IF BuildErr(s) # "" THEN Did("none", "", BuildErr(s))
    ELSE IF Rendered(s) = "empty"
         THEN Did("empty", "", "ErrMissingWhereClause")
    ELSE IF s.multiple THEN Did("conds", "UpdateMany", StoreErr(out))
    ELSE IF s.updateAndModifyModel
         THEN Did("conds", "FindOneAndUpdate", StoreErr(out))
    ELSE Did("conds", "UpdateOne", StoreErr(out))

\* faulty variant: the filter is not looked at
cmdDeleteUnchecked(s, out) == Did(Rendered(s), "Delete", StoreErr(out))

\* cmdDelete; DeleteOne and DeleteMany are taken as one call
cmdDelete(s, out) ==
    IF Rendered(s) = "empty" THEN Did("empty", "", "ErrMissingWhereClause")
    ELSE Did("conds", "Delete", StoreErr(out))

\* the handle of the processor of command cmd
handle(s, cmd, out) ==
    CASE cmd = "update" -> cmdUpdate(s, out)
      [] cmd = "delete" -> cmdDelete(s, out)
      [] cmd = "create" -> Did("none", "InsertOne", StoreErr(out))
      [] cmd = "count" -> Did(Rendered(s), "CountDocuments", StoreErr(out))
      [] OTHER -> Did(Rendered(s), "Find", StoreErr(out))

\* the record of one processor.Execute on handle h that started from d,
\* after which Parse left p
Exec(d, p, h, cmd, out, trace, did) ==
    [tx |-> h, cmd |-> cmd, before |-> d.handles[h].Error, trace |-> trace,
     parsed |-> p.handles[h].Error, table |-> p.handles[h].stmt.table,
     out |-> out, filter |-> did.filter, store |-> did.store,
     err |-> did.err, conds |-> FALSE]

\* faulty variant: the error Parse left is not looked at
ExecuteIgnoresParse(d, h, cmd, out) ==
    LET p == Parse(d, h)
        t == IF p.handles[h].stmt.table = ""
             THEN Errorf(p, h, "table not set") ELSE p
        c == IF out = "cancelled" THEN Did("none", "", out)
             ELSE handle(t.handles[h].stmt, cmd, out)
        r == IF c.err = ""
             THEN [t EXCEPT !.handles[h].stmt.value = "nil"]
             ELSE Errorf(t, h, c.err)
    IN  [r EXCEPT !.exec =
             Exec(d, p, h, cmd, out,
                  <<"Parse", "table", "pool">>
                      \o (IF out = "cancelled" THEN <<>> ELSE <<"handle">>),
                  c)]

\* processor.Execute of the processor of command cmd on handle h; out is
\* what the context and the collection do: with a cancelled context
\* PoolManager.Execute does not run the handle
Execute(d, h, cmd, out) ==
    LET p == Parse(d, h)
        t == IF p.handles[h].stmt.table = ""
             THEN Errorf(p, h, "table not set") ELSE p
        c == handle(t.handles[h].stmt, cmd, out)
        none == Did("none", "", "")
    IN  IF p.handles[h].Error # ""
        THEN [p EXCEPT !.exec = Exec(d, p, h, cmd, out, <<"Parse">>, none)]
        ELSE IF t.handles[h].Error # ""
        THEN [t EXCEPT !.exec =
                  Exec(d, p, h, cmd, out, <<"Parse", "table">>, none)]
        ELSE IF out = "cancelled"
        THEN [Errorf(t, h, out) EXCEPT !.exec =
                  Exec(d, p, h, cmd, out, <<"Parse", "table", "pool">>,
                       none)]
        ELSE IF c.err # ""
        THEN [Errorf(t, h, c.err) EXCEPT !.exec =
                  Exec(d, p, h, cmd, out,
                       <<"Parse", "table", "pool", "handle">>, c)]
        ELSE [t EXCEPT !.handles[h].stmt.value = "nil",
                       !.exec = Exec(d, p, h, cmd, out,
                                     <<"Parse", "table", "pool", "handle">>,
                                     c)]

\* DB.Find: with conditions the handle is the one db.Where returns
Find(d, h, val, where, out) ==
    LET g == IF where THEN DBWhere(d, h) ELSE getInstance(d, h)
        v == [g.d EXCEPT !.handles[g.tx].stmt.value = val]
    IN  [d |-> Execute(v, g.tx, "query", out), tx |-> g.tx]

\* DB.Create
Create(d, h, value, out) ==
    LET g == getInstance(d, h)
        v == [g.d EXCEPT !.handles[g.tx].stmt.value = value]
    IN  [d |-> Execute(v, g.tx, "create", out), tx |-> g.tx]

\* DB.Update
Update(d, h, values, where, out) ==
    LET g == getInstance(d, h)
        w == IF where THEN DBWhere(g.d, g.tx) ELSE g
        v == [w.d EXCEPT !.handles[w.tx].stmt.value = values]
    IN  [d |-> Execute(v, w.tx, "update", out), tx |-> w.tx]

\* DB.Delete; conds is the first condition, "nil" when there is none.  The
\* conditions go to db.Where, whose handle is dropped when db is not a clone
Delete(d, h, conds, out) ==
    LET g == getInstance(d, h)
        v == IF conds # "nil"
             THEN [g.d EXCEPT !.handles[g.tx].stmt.value = conds,
                              !.handles[g.tx].stmt.Clause =
                                  IF d.handles[h].clone THEN @ + 1 ELSE @]
             ELSE g.d
    IN  [d |-> [Execute(v, g.tx, "delete", out)
                    EXCEPT !.exec.conds = (conds # "nil")],
         tx |-> g.tx]

\* DB.Count
Count(d, h, where, out) ==
    LET g == getInstance(d, h)
        w == IF where THEN DBWhere(g.d, g.tx) ELSE g
        v == [w.d EXCEPT !.handles[w.tx].stmt.value = "count"]
    IN  [d |-> Execute(v, w.tx, "count", out), tx |-> w.tx]

\* Paging.Init
PagingInit(size, max) == IF size <= 0 \/ size > max THEN max ELSE size

\* DB.Page with a Paging whose Rows is a slice and whose Update is 0; out
\* is what CountDocuments and Find do
Page(d, h, paging, where, out) ==
    LET a == [d EXCEPT !.handles[h].stmt.Paging = paging,
                       !.Size[paging] = PagingInit(@, DefaultPageSize)]
        g == getInstance(a, h)
        w == IF where THEN DBWhere(g.d, g.tx) ELSE g
        v == [w.d EXCEPT !.handles[g.tx].stmt.value = "rows"]
        p == Parse(v, w.tx)
    IN  [d |-> IF p.handles[w.tx].Error # "" THEN p
               ELSE IF p.handles[g.tx].stmt.table = ""
                    THEN Errorf(p, w.tx, "table not set")
               ELSE IF out = "ok" THEN p
               ELSE Errorf(p, w.tx, out),
         tx |-> w.tx]

\* cosmo.New, and the chains at the root
InitDB ==
    /\ New
    /\ bk = NoBackoff
    /\ wt = NoWait
    /\ qy = NoQuery
    /\ up = NoUpdate
    /\ sl = NoSelector
    /\ ca = NoCache
    /\ db = [NoDB EXCEPT
               !.pc = "open",
               !.root = 1,
               !.handles = <<[Error |-> "", clone |-> FALSE,
                              stmt |-> NewStatement(1)]>>,
               !.tx = [c \in Chains |-> 1],
               !.Size = [p \in Pagings |-> 0]]

\* chain c takes what a method returned
Chain(c, r) ==
    /\ db.pc = "open"
    /\ db.steps < MaxSteps
    /\ db' = [r.d EXCEPT !.tx[c] = r.tx, !.steps = @ + 1]
    /\ UNCHANGED <<mvars, bk, wt, qy, up, sl, ca>>

\* the calls tried: a model with a table, one whose Tabler names none and
\* one that is no struct; a struct value, none and a nil pointer
ModelCalls ==
    {[value |-> "User", modify |-> FALSE],
     [value |-> "User", modify |-> TRUE],
     [value |-> "Untabled", modify |-> FALSE],
     [value |-> "int", modify |-> FALSE]}
Columns == {{"name"}}
PageCalls ==
    {[where |-> FALSE, out |-> "ok"], [where |-> TRUE, out |-> "fail"]}
FindCalls ==
    {[val |-> "User", where |-> FALSE, out |-> "ok"],
     [val |-> "User", where |-> TRUE, out |-> "ok"],
     [val |-> "User", where |-> FALSE, out |-> "fail"],
     [val |-> "User", where |-> FALSE, out |-> "cancelled"],
     [val |-> "nilptr", where |-> FALSE, out |-> "ok"]}
CreateCalls ==
    {[value |-> "User", out |-> "ok"], [value |-> "User", out |-> "fail"],
     [value |-> "nil", out |-> "ok"], [value |-> "nilptr", out |-> "ok"]}
UpdateCalls ==
    {[values |-> "User", where |-> TRUE, out |-> "ok"],
     [values |-> "User", where |-> FALSE, out |-> "ok"],
     [values |-> "User", where |-> TRUE, out |-> "cancelled"],
     [values |-> "int", where |-> FALSE, out |-> "ok"]}
DeleteCalls ==
    {[conds |-> "id", out |-> "ok"], [conds |-> "nil", out |-> "ok"],
     [conds |-> "User", out |-> "ok"], [conds |-> "id", out |-> "fail"]}
CountCalls ==
    {[where |-> TRUE, out |-> "ok"], [where |-> FALSE, out |-> "cancelled"]}

DBModelCall(c) ==
    \E a \in ModelCalls : Chain(c, Model(db, db.tx[c], a.value, a.modify))

DBTableCall(c) == Chain(c, Table(db, db.tx[c], "users"))

DBUpsertCall(c) == Chain(c, Upsert(db, db.tx[c]))

DBMultipleCall(c) == Chain(c, DBMultiple(db, db.tx[c]))

DBOmitCall(c) ==
    \E columns \in Columns : Chain(c, DBOmit(db, db.tx[c], columns))

DBSelectCall(c) ==
    \E columns \in Columns : Chain(c, DBSelect(db, db.tx[c], columns))

DBWhereCall(c) == Chain(c, DBWhere(db, db.tx[c]))

DBOrderCall(c) == Chain(c, Order(db, db.tx[c]))

DBLimitCall(c) == Chain(c, Limit(db, db.tx[c], 5))

DBPageCall(c) ==
    \E a \in PageCalls :
        Chain(c, Page(db, db.tx[c], ArgPaging(c), a.where, a.out))

DBFindCall(c) ==
    \E a \in FindCalls : Chain(c, Find(db, db.tx[c], a.val, a.where, a.out))

DBCreateCall(c) ==
    \E a \in CreateCalls : Chain(c, Create(db, db.tx[c], a.value, a.out))

DBUpdateCall(c) ==
    \E a \in UpdateCalls :
        Chain(c, Update(db, db.tx[c], a.values, a.where, a.out))

DBDeleteCall(c) ==
    \E a \in DeleteCalls : Chain(c, Delete(db, db.tx[c], a.conds, a.out))

DBCountCall(c) ==
    \E a \in CountCalls : Chain(c, Count(db, db.tx[c], a.where, a.out))

NextDB ==
    \E c \in Chains :
        \/ DBModelCall(c)
        \/ DBTableCall(c)
        \/ DBUpsertCall(c)
        \/ DBMultipleCall(c)
        \/ DBOmitCall(c)
        \/ DBSelectCall(c)
        \/ DBWhereCall(c)
        \/ DBOrderCall(c)
        \/ DBLimitCall(c)
        \/ DBPageCall(c)
        \/ DBFindCall(c)
        \/ DBCreateCall(c)
        \/ DBUpdateCall(c)
        \/ DBDeleteCall(c)
        \/ DBCountCall(c)

SpecDB == InitDB /\ [][NextDB]_vars

\* ------------------------------------------------------------------ Cache
\* src/cache.go.  A record is its id and the value of GetUpdate(), 0 for a
\* record that is not there; the store is the collection the cache mirrors.
CacheIds == {1, 2}

\* goroutines that call the cache
CacheThreads == {1, 2}

\* NewCache: time is the second of construction, the dataset is empty and no
\* cursor is cached.  The collection is empty so far.
InitCache ==
    /\ New
    /\ bk = NoBackoff
    /\ wt = NoWait
    /\ qy = NoQuery
    /\ up = NoUpdate
    /\ sl = NoSelector
    /\ db = NoDB
    /\ ca = [pc |-> "open",
             time |-> 1,
             dataset |-> [i \in CacheIds |-> 0],
             cursor |-> <<>>,
             store |-> [i \in CacheIds |-> 0],
             clock |-> 1,
             events |-> <<>>,
             made |-> 0,
             th |-> [t \in CacheThreads |-> NoCall]]

\* CacheData.Copy followed by the handle's Reload(ts, dataset.setter): the
\* handle sets into the copy every record of the collection updated at ts or
\* later (all of them for ts = 0); the other keys keep their cached values
handleReload(dataset, store, ts) ==
    [i \in CacheIds |->
        IF store[i] # 0 /\ store[i] >= ts THEN store[i] ELSE dataset[i]]

\* CacheData.Delete: a copy without key id
CacheDataDelete(dataset, id) == [dataset EXCEPT ![id] = 0]

\* the orders sort.Slice can leave the records of the dataset in: latest
\* update first, records of equal update in either order
SortedCursors(dataset) ==
    LET P == {i \in CacheIds : dataset[i] # 0}
        n == Cardinality(P)
    IN  {q \in [1..n -> P] :
            /\ \A i, j \in 1..n : i # j => q[i] # q[j]
            /\ \A i, j \in 1..n : i < j => dataset[q[i]] >= dataset[q[j]]}

\* one second passes
CacheTick ==
    /\ ca.pc = "open"
    /\ ca.clock < MaxTime
    /\ ca' = [ca EXCEPT !.clock = @ + 1]
    /\ UNCHANGED <<mvars, bk, wt, qy, up, sl, db>>

\* a record of the collection is created or updated: it is stamped with the
\* current second and the change is announced with that timestamp
StoreWrite(id) ==
    /\ ca.pc = "open"
    /\ ca.made < MaxEvents
    /\ ca' = [ca EXCEPT
                !.store[id] = ca.clock,
                !.made = @ + 1,
                !.events = Append(@, [kind |-> IF ca.store[id] = 0
                                               THEN "create" ELSE "update",
                                      id |-> id, ts |-> ca.clock])]
    /\ UNCHANGED <<mvars, bk, wt, qy, up, sl, db>>

\* a record of the collection is deleted and the deletion is announced
StoreRemove(id) ==
    /\ ca.pc = "open"
    /\ ca.made < MaxEvents
    /\ ca.store[id] # 0
    /\ ca' = [ca EXCEPT
                !.store[id] = 0,
                !.made = @ + 1,
                !.events = Append(@, [kind |-> "delete", id |-> id,
                                      ts |-> ca.clock])]
    /\ UNCHANGED <<mvars, bk, wt, qy, up, sl, db>>

\* Cache.Reload up to the lock: a positive ts that is not later than
\* Cache.time returns nil at once; any other call goes on to take the lock
ReloadEnter(c, t, kind, id, ts) ==
    IF ts > 0 /\ ts <= c.time
    THEN [c EXCEPT !.th[t] = [pc |-> "idle", kind |-> kind, id |-> id,
                              ts |-> ts, called |-> FALSE, err |-> "nil"]]
    ELSE [c EXCEPT !.th[t] = [pc |-> "lock", kind |-> kind, id |-> id,
                              ts |-> ts, called |-> FALSE, err |-> ""]]

\* Cache.Listener with a delete event: Cache.Delete under the lock
ListenerDelete(t) ==
    /\ ca.pc = "open"
    /\ ca.th[t].pc = "idle"
    /\ ca.events # <<>>
    /\ LET e == Head(ca.events)
       IN  /\ e.kind = "delete"
           /\ ca' = [ca EXCEPT
                       !.events = Tail(@),
                       !.cursor = <<>>,
                       !.dataset = CacheDataDelete(@, e.id),
                       !.th[t] = [pc |-> "idle", kind |-> "delete",
                                  id |-> e.id, ts |-> e.ts,
                                  called |-> FALSE, err |-> "nil"]]
    /\ UNCHANGED <<mvars, bk, wt, qy, up, sl, db>>

\* Cache.Listener with a create or update event: Cache.Reload(update)
ListenerReload(t) ==
    /\ ca.pc = "open"
    /\ ca.th[t].pc = "idle"
    /\ ca.events # <<>>
    /\ LET e == Head(ca.events)
       IN  /\ e.kind \in {"create", "update"}
           /\ ca' = ReloadEnter([ca EXCEPT !.events = Tail(@)],
                                t, e.kind, e.id, e.ts)
    /\ UNCHANGED <<mvars, bk, wt, qy, up, sl, db>>

\* Cache.Reload(0) called directly: a full load
ReloadCall(t) ==
    /\ ca.pc = "open"
    /\ ca.th[t].pc = "idle"
    /\ ca' = ReloadEnter(ca, t, "reload", 0, 0)
    /\ UNCHANGED <<mvars, bk, wt, qy, up, sl, db>>

\* Cache.Reload under the lock: the handle loads into a copy of the dataset;
\* on its error the call returns it, otherwise a positive ts becomes the
\* time, the cursor is dropped and the copy becomes the dataset
ReloadLocked(t) ==
    /\ ca.pc = "open"
    /\ ca.th[t].pc = "lock"
    /\ \E herr \in BOOLEAN :
         LET ts == ca.th[t].ts
             dataset == handleReload(ca.dataset, ca.store, ts)
         IN  ca' = IF herr
                   THEN [ca EXCEPT !.th[t].pc = "idle",
                                   !.th[t].called = TRUE,
                                   !.th[t].err = "err"]
                   ELSE [ca EXCEPT !.th[t].pc = "idle",
                                   !.th[t].called = TRUE,
                                   !.th[t].err = "nil",
                                   !.time = IF ts > 0 THEN ts ELSE @,
                                   !.cursor = <<>>,
                                   !.dataset = dataset]
    /\ UNCHANGED <<mvars, bk, wt, qy, up, sl, db>>

\* Cache.Cursor: with no cursor cached the records of the dataset are
\* sorted under the lock and kept; a cached cursor is used as it is
CursorCall(t) ==
    /\ ca.pc = "open"
    /\ ca.th[t].pc = "idle"
    /\ \E q \in SortedCursors(ca.dataset) :
         ca' = IF Len(ca.cursor) = 0 THEN [ca EXCEPT !.cursor = q] ELSE ca
    /\ UNCHANGED <<mvars, bk, wt, qy, up, sl, db>>

NextCache ==
    \/ CacheTick
    \/ \E id \in CacheIds : StoreWrite(id)
    \/ \E id \in CacheIds : StoreRemove(id)
    \/ \E t \in CacheThreads : ListenerDelete(t)
    \/ \E t \in CacheThreads : ListenerReload(t)
    \/ \E t \in CacheThreads : ReloadCall(t)
    \/ \E t \in CacheThreads : ReloadLocked(t)
    \/ \E t \in CacheThreads : CursorCall(t)

SpecCache == InitCache /\ [][NextCache]_vars

\* ----------------------------------------------------------------- claims
\* thread t holds the isRecovering flag: it is inside the body of tryRecover
Running(t) == rec[t].pc \in {"init", "after", "swapped"}

\* thread t leaves the guard of tryRecover in this step
Triggers(t) == rec[t].pc = "enter" /\ rec'[t].pc # "enter"

\* C1: at most one thread is inside the body of tryRecover at any time, and
\* a trigger that arrives while another thread is inside it returns at once:
\* it builds no client and leaves the live client, the metrics (so
\* RecoveryAttempts), the failure counter and the closed handles unchanged.
C1_SingleFlightRecovery ==
    /\ [](Cardinality({t \in Threads : Running(t)}) <= 1)
    /\ [][\A t \in Threads :
            (Triggers(t) /\ \E u \in Threads \ {t} : Running(u))
            => /\ rec'[t] = Returned
               /\ UNCHANGED <<client, closed, closers, isRecovering,
                              failureCount, metrics>>]_vars

\* C1 witness: thread u is past RecoveryAttempts.Add(1), the counter still
\* reads 1, and another thread's tryRecover call has already returned
C1_Witness ==
    \E t, u \in Threads :
        /\ t # u
        /\ rec[u].pc \in {"after", "swapped"}
        /\ rec[t].pc = "ret"
        /\ metrics.RecoveryAttempts = 1

\* C2: every change of the live client is made by a thread in tryRecover,
\* after its loop, and installs that run's candidate, on which the ping and
\* the command round-trip both succeeded; no other step assigns it.
C2_SwapOnlyValidated ==
    [][client' # client
       => \E t \in Threads :
            /\ rec[t].pc = "after"
            /\ rec'[t].pc = "swapped"
            /\ rec[t].pingOK /\ rec[t].cmdOK
            /\ ~rec[t].newClosed
            /\ client' = rec[t].newClient]_vars

\* C2 witness: the live client has been replaced
C2_Witness == client # 1 /\ \E t \in Threads : rec[t].pc = "swapped"

\* C3: when the operation failed and the quick probe answered healthy,
\* Execute has returned, its result is the operation's own error, the
\* operation ran once and the call never entered tryRecover.
C3_BusinessErrorPassthrough ==
    \A c \in Callers :
        ex[c].probe = "healthy"
        => /\ ex[c].pc = "done"
           /\ ex[c].err # NilErr
           /\ ex[c].ret = Plain(ex[c].err)
           /\ ex[c].ops = 1
           /\ rec[c].pc = "none"

\* C3 witness: a call whose operation failed with a duplicate key and that
\* ended on a healthy probe
C3_Witness ==
    \E c \in Callers :
        /\ ex[c].pc = "done"
        /\ ex[c].probe = "healthy"
        /\ ex[c].ret = Plain(ErrDupKey)

\* C4: the retry happens only after the probe answered unhealthy, the call's
\* own tryRecover returned and WaitForHealthy counted enough consecutive
\* successes; it is handed the client that is live at that moment; the
\* operation runs at most twice; and the retry's result ends the call with
\* no further probe, recovery or retry.
C4_RetryOnceOnCurrentClient ==
    /\ [](\A c \in Callers :
            /\ ex[c].ops <= 2
            /\ ex[c].pc \in {"retry", "op2"}
               => /\ ex[c].probe = "unhealthy"
                  /\ ex[c].wait = "ok"
                  /\ ex[c].healthyCount >= WaitHealthyNeededCount
                  /\ rec[c].pc = "ret"
                  /\ ex[c].ops = 1
            /\ (ex[c].pc = "done" /\ ex[c].wait = "ok")
               => /\ ex[c].ops = 2
                  /\ ex[c].ret.kind = "plain"
                  /\ ex[c].ret.err \in OpErrors \cup {NilErr})
    /\ [][\A c \in Callers :
            /\ (ex[c].pc = "retry" /\ ex'[c] # ex[c])
               => ex'[c].pc = "op2" /\ ex'[c].cur = client
            /\ (ex[c].pc = "op2" /\ ex'[c] # ex[c])
               => /\ ex'[c].pc = "done"
                  /\ UNCHANGED <<client, rec, metrics>>]_vars

\* C4 witness: the retried operation is running on a replacement client
C4_Witness ==
    \E c \in Callers : ex[c].pc = "op2" /\ ex[c].cur = 2 /\ client = 2

\* C5: when WaitForHealthy gave up, Execute returns an error that wraps the
\* operation's original error and the operation ran only once.
C5_CannotRecoverWraps ==
    \A c \in Callers :
        ex[c].wait = "timeout"
        => /\ ex[c].pc = "done"
           /\ ex[c].probe = "unhealthy"
           /\ ex[c].err # NilErr
           /\ ex[c].ret = Wrap(ex[c].err)
           /\ ex[c].ops = 1

\* C5 witness: a call that ended because the wait gave up
C5_Witness ==
    \E c \in Callers :
        ex[c].pc = "done" /\ ex[c].wait = "timeout" /\ ex[c].ret.kind = "wrap"

\* C6 (as claimed): a candidate on which the ping and the command round-trip
\* succeeded becomes the live client at the run's next step, whatever the
\* serverStatus probe answered.
C6_DeepStatusBestEffort ==
    [][\A t \in Threads :
         (rec[t].pc = "after" /\ rec[t].pingOK /\ rec[t].cmdOK
            /\ rec'[t] # rec[t])
         => client' = rec[t].newClient]_vars

\* C7 (as claimed): a call whose operation returned a business error never
\* enters tryRecover, never runs the operation again, and returns that error.
C7_BusinessErrorNeverRecovers ==
    \A c \in Callers :
        IsBusinessError(ex[c].err)
        => /\ rec[c].pc = "none"
           /\ ex[c].ops <= 1
           /\ (ex[c].pc = "done" /\ ex[c].ret # Plain(ErrCtx))
              => ex[c].ret = Plain(ex[c].err)

\* C8 (as claimed): a call whose operation returned a network error ends
\* either after the recovery-and-retry cycle or, when the wait gave up, with
\* the wrapped error.
C8_TransientErrorAbsorbed ==
    \A c \in Callers :
        (ex[c].pc = "done" /\ IsNetworkError(ex[c].err)
           /\ ex[c].ret # Plain(ErrCtx))
        => \/ ex[c].wait = "ok" /\ ex[c].ops = 2
           \/ ex[c].wait = "timeout" /\ ex[c].ret = Wrap(ex[c].err)

\* C9: the step that ends a successful recovery run leaves the failure
\* counter at zero, and in that run the live client was assigned once: it is
\* the run's validated candidate and differs from the client it replaced.
C9_SwapOnceAndReset ==
    [][\A t \in Threads :
         (rec[t].pc = "swapped" /\ rec'[t].pc = "ret")
         => /\ rec[t].swaps = 1
            /\ client = rec[t].newClient
            /\ client # rec[t].oldClient
            /\ client' = client
            /\ failureCount' = 0]_vars

\* C9 witness: a recovery succeeded after a failed health check had raised
\* the failure counter, and the counter reads zero
C9_Witness ==
    /\ metrics.SuccessfulRecoveries = 1
    /\ metrics.FailedChecks = 1
    /\ failureCount = 0
    /\ client = 2
    /\ \E t \in Gos : rec[t].pc = "ret"

\* C10: a run whose context expired, or that left its loop without a
\* candidate that passed ping and command, returns and leaves the live
\* client (the one it saw at its start), the closed handles, the pending
\* closes, the failure counter and SuccessfulRecoveries as they were.
C10_ExhaustedLeavesManager ==
    [][\A t \in Threads :
         (\/ rec[t].pc = "init" /\ rec'[t].pc = "ret"
          \/ /\ rec[t].pc = "after"
             /\ ~(rec[t].pingOK /\ rec[t].cmdOK)
             /\ rec'[t] # rec[t])
         => /\ rec'[t] = Returned
            /\ client' = client
            /\ rec[t].pc = "after" => client = rec[t].oldClient
            /\ closed' = closed
            /\ closers' = closers
            /\ failureCount' = failureCount
            /\ metrics'.SuccessfulRecoveries = metrics.SuccessfulRecoveries
            /\ isRecovering' = FALSE]_vars

\* C10 witness: a run has left its loop with every attempt failed while the
\* failure counter is raised
C10_Witness ==
    \E t \in Threads :
        /\ rec[t].pc = "after"
        /\ rec[t].err \in {"new", "ping", "cmd"}
        /\ failureCount = 1

Checking == {l \in Loops : loop[l] = "checking"}

\* C12 (as claimed): at most one run of the health check's probes is in
\* progress at any time, whether a loop's tick or a CheckNow call started it.
C12_OneFullCheck == Cardinality(Checking) + now <= 1

\* C12 (amended): at most one loop is inside checkHealth at any time; a
\* checkHealth call that arrives while a check is in progress returns with
\* the flag, TotalChecks and every other field of the manager unchanged;
\* TotalChecks grows only in the step that takes the flag; and a CheckNow
\* call neither takes the flag nor changes any counter.
C12_SingleFlightCheck ==
    /\ [](Cardinality(Checking) <= 1)
    /\ [][\A l \in Loops :
            (loop'[l] # loop[l] /\ loop[l] # "off" /\ Checking # {}
               /\ l \notin Checking)
            => /\ loop'[l] = "skipped"
               /\ UNCHANGED <<client, closed, closers, isStarted, isChecking,
                              isRecovering, failureCount, metrics, now, rec>>]_vars
    /\ [][metrics'.TotalChecks # metrics.TotalChecks
          => /\ metrics'.TotalChecks = metrics.TotalChecks + 1
             /\ ~isChecking /\ isChecking'
             /\ Checking = {} /\ Cardinality(Checking') = 1]_vars
    /\ [][now' # now
          => UNCHANGED <<client, closed, closers, isStarted, isChecking,
                         isRecovering, failureCount, metrics, loop, rec>>]_vars

\* C12 witness: a loop's call was skipped while another loop's check, the
\* only one counted, is in progress
C12_Witness ==
    \E l, k \in Loops :
        /\ loop[l] = "checking"
        /\ loop[k] = "skipped"
        /\ metrics.TotalChecks = 1

\* C13: the live client is never a disconnected handle; a handle is
\* disconnected only by the delayed-close goroutine of the swap that replaced
\* it, in a later step than the swap, and only when it is not the live
\* client at that step; the swap step disconnects nothing and only leaves
\* the previous client pending.
C13_DelayedCloseOfPrevious ==
    /\ [](client \notin closed /\ client \notin closers)
    /\ [][closed' # closed
          => \E h \in closers :
               /\ h # client
               /\ closed' = closed \cup {h}
               /\ closers' = closers \ {h}
               /\ client' = client]_vars
    /\ [][client' # client
          => /\ closed' = closed
             /\ closers' = closers \cup {client}
             /\ client \notin closed']_vars

\* C13 witness: the first client was replaced and its delayed close has run
C13_Witness == client = 2 /\ closed = {1} /\ closers = {}

\* the smaller of two durations
Min(a, b) == IF a < b THEN a ELSE b

\* C14: the first attempt is made without any sleep, so after k attempts
\* there have been k - 1 sleeps; the sleep before retry n is
\* min(BackoffBase^(n - AttemptOffset) * RetryDelay, MaxBackoffDelay); each
\* sleep is longer than the one before unless it equals the cap; and no
\* sleep is longer than the cap.
C14_BackoffGrowsToCap ==
    bk.pc # "none"
    => /\ bk.pc = "loop"
          => Len(bk.slept) = IF bk.attempt = 0 THEN 0 ELSE bk.attempt - 1
       /\ bk.attempt = 0 => bk.slept = <<>>
       /\ \A n \in 1..Len(bk.slept) :
            /\ bk.slept[n] = Min(intPow(BackoffBase, n - AttemptOffset)
                                   * bk.RetryDelay,
                                 bk.MaxBackoffDelay)
            /\ bk.slept[n] <= bk.MaxBackoffDelay
            /\ n > 1 => \/ bk.slept[n] > bk.slept[n - 1]
                        \/ bk.slept[n] = bk.MaxBackoffDelay

\* C14 witness: a run that slept before each of its three retries, the
\* first two sleeps below the cap and the third cut to it
C14_Witness ==
    /\ Len(bk.slept) = MaxRetries
    /\ bk.slept[1] < bk.slept[2]
    /\ bk.slept[2] < bk.MaxBackoffDelay
    /\ bk.slept[3] = bk.MaxBackoffDelay
    /\ intPow(BackoffBase, 3 - AttemptOffset) * bk.RetryDelay
         > bk.MaxBackoffDelay

\* how many probes at the end of s succeeded
RECURSIVE TrailingSuccesses(_)
TrailingSuccesses(s) ==
    IF s = <<>> \/ ~s[Len(s)] THEN 0
    ELSE 1 + TrailingSuccesses(SubSeq(s, 1, Len(s) - 1))

\* C15: the consecutive count is the number of successful probes since the
\* last failed one, so a failed probe puts it at zero; the call returns true
\* only when there were at least WaitHealthyNeededCount probes and the last
\* WaitHealthyNeededCount of them all succeeded; it polls on only while
\* fewer have; and it returns false only because the timeout or the
\* caller's context ended the wait.
C15_ConsecutiveSuccesses ==
    wt.pc # "none"
    => /\ wt.healthyCount = TrailingSuccesses(wt.probes)
       /\ (wt.probes # <<>> /\ ~wt.probes[Len(wt.probes)])
          => wt.healthyCount = 0
       /\ wt.ret = "true"
          => /\ Len(wt.probes) >= WaitHealthyNeededCount
             /\ \A i \in (Len(wt.probes) - WaitHealthyNeededCount + 1)
                          ..Len(wt.probes) : wt.probes[i]
             /\ wt.cause = "none"
       /\ wt.pc = "poll" => wt.healthyCount < WaitHealthyNeededCount
       /\ wt.ret = "false"
          => /\ wt.cause \in {"timeout", "ctx"}
             /\ wt.healthyCount < WaitHealthyNeededCount
       /\ wt.pc = "done" <=> wt.ret \in {"true", "false"}

\* C15 witness: a call that returned true although it had counted a success
\* before: a later failure had reset the count
C15_Witness ==
    /\ wt.ret = "true"
    /\ \E i, j \in 1..Len(wt.probes) : i < j /\ wt.probes[i] /\ ~wt.probes[j]

\* caller c's Execute moves on from position p in this step
Leaves(c, p) == ex[c].pc = p /\ ex'[c].pc # p

\* C16 (as claimed): a call entered with a cancelled context returns the
\* context's error without invoking the operation, and a call whose context
\* is cancelled when the operation returns ends there with the context's
\* error.
C16_CancelledReturnsCtxErr ==
    [][\A c \in Callers :
         /\ (Leaves(c, "idle") /\ ex[c].cancelled)
            => /\ ex'[c].pc = "done"
               /\ ex'[c].ret = Plain(ErrCtx)
               /\ ex'[c].ops = 0
         /\ (Leaves(c, "op") /\ ex[c].cancelled)
            => /\ ex'[c].pc = "done"
               /\ ex'[c].ret = Plain(ErrCtx)]_vars

\* C16 (amended): a call entered with a cancelled context returns the
\* context's error without invoking the operation; a call whose operation
\* failed and whose context is cancelled when the operation returns ends
\* there with the context's error, having run the operation once and
\* neither the quick probe nor tryRecover; a call whose operation succeeded
\* returns nil whatever the state of its context.
C16_ContextChecks ==
    [][\A c \in Callers :
         /\ (Leaves(c, "idle") /\ ex[c].cancelled)
            => /\ ex'[c].pc = "done"
               /\ ex'[c].ret = Plain(ErrCtx)
               /\ ex'[c].ops = 0
               /\ UNCHANGED <<rec, metrics, client>>
         /\ (Leaves(c, "idle") /\ ~ex[c].cancelled)
            => ex'[c].pc = "op" /\ ex'[c].cur = client
         /\ (Leaves(c, "op") /\ ex[c].cancelled)
            => /\ ex'[c].pc = "done"
               /\ ex'[c].ops = 1
               /\ ex'[c].ret = IF ex'[c].err = NilErr THEN Plain(NilErr)
                                                      ELSE Plain(ErrCtx)
               /\ ex'[c].probe = "none" /\ ex'[c].wait = "none"
               /\ rec'[c].pc = "none"
               /\ UNCHANGED <<rec, metrics, client>>]_vars

\* C16 witness: a call whose operation failed returned the context's error
\* without having probed
C16_Witness ==
    \E c \in Callers :
        /\ ex[c].pc = "done"
        /\ ex[c].ops = 1
        /\ ex[c].err \in OpErrors
        /\ ex[c].ret = Plain(ErrCtx)
        /\ ex[c].probe = "none"

\* C17 (as claimed): however many times Start is called, at most one
\* healthCheckLoop goroutine has been started on the manager.
C17_StartIdempotent == Cardinality({l \in Loops : loop[l] # "off"}) <= 1


\* C18 (as claimed): two Build calls on an unmodified Query give structurally
\* equal filter documents, and a later call leaves the document an earlier
\* call returned as it was at its return.
C18_BuildIdempotent ==
    \A i \in 1..Len(qy.outs) : \A j \in 1..Len(qy.outs) :
        i < j =>
          /\ Deref(qy.heap, Doc(qy.outs[i].doc))
               = Deref(qy.heap, Doc(qy.outs[j].doc))
          /\ Deref(qy.heap, Doc(qy.outs[i].doc)) = qy.outs[i].was


\* C19 (as claimed): after Build no key of $setOnInsert is a key of any other
\* operator of the same Update.
C19_SetOnInsertDisjointFromAll ==
    (up.pc = "done" /\ ~up.err) =>
        \A t \in UpdateOps \ {"$setOnInsert"} :
            up.update["$setOnInsert"].keys \cap up.update[t].keys = {}

\* the store names the statement's value declares under set-on-insert
Declared(st) ==
    CASE st.kind = "struct" /\ st.onInsert.impl = "map" -> st.onInsert.keys
      [] st.kind = "Update" /\ st.schema ->
           Transform(st.value)["$setOnInsert"].keys
      [] st.kind = "Update" -> st.value["$setOnInsert"].keys
      [] OTHER -> {}

\* C20: after Build a key under $set that the value declares under
\* set-on-insert is under $set only; upsert is true exactly when a key is
\* left under $setOnInsert, and the bucket is absent when none is left.
C20_SetOnInsertAndUpsert ==
    up.pc = "done" =>
        /\ up.update["$set"].keys \cap up.update["$setOnInsert"].keys = {}
        /\ up.upsert <=> up.update["$setOnInsert"].keys # {}
        /\ up.update["$setOnInsert"].has
             => up.update["$setOnInsert"].keys # {}
        /\ ~up.err
             => up.update["$setOnInsert"].keys
                  = Declared(up) \ (up.update["$set"].keys
                                      \cup up.update["$inc"].keys)

\* C20 witness: Build of a struct that sets name and declares name and lv
\* under set-on-insert returned with upsert and lv alone under $setOnInsert
C20_Witness ==
    /\ up.pc = "done"
    /\ up.kind = "struct"
    /\ up.onInsert = [impl |-> "map", keys |-> {"name", "lv"}]
    /\ up.update["$set"] = Bucket({"name"})
    /\ up.update["$setOnInsert"] = Bucket({"lv"})
    /\ up.upsert


\* C21: for a struct value and a selector without restriction, a field other
\* than the primary key is under $set exactly when includeZeroValue is set
\* or its value is not the zero value; the primary key is never under $set.
C21_ZeroValueLaw ==
    (up.pc = "done" /\ up.kind = "struct" /\ up.selector = SelectorNone) =>
        /\ \A k \in ModelFields :
              k \in up.update["$set"].keys
                <=> (up.includeZeroValue \/ k \notin up.zero)
        /\ MongoPrimaryName \notin up.update["$set"].keys

\* C21 witness: Build of a struct whose lv is zero and whose primary key is
\* set, with includeZeroValue, has put lv under $set
C21_Witness ==
    /\ up.pc = "done"
    /\ up.kind = "struct"
    /\ up.selector = SelectorNone
    /\ up.includeZeroValue
    /\ "lv" \in up.zero
    /\ MongoPrimaryName \notin up.zero
    /\ "lv" \in up.update["$set"].keys


\* C22: once a Select call has succeeded, every later Omit call with no
\* Release in between returns false and leaves the selector as it was, and
\* the same with Select and Omit exchanged; a call other than Release never
\* takes a restricted selector back to the unrestricted state, and Release
\* always does.
C22_SelectorExclusive ==
    /\ \A i \in 1..Len(sl.calls) : \A j \in 1..Len(sl.calls) :
          ( /\ i < j
            /\ sl.calls[i].ok
            /\ \A m \in i..j : sl.calls[m].op # "Release"
            /\ \/ sl.calls[i].op = "Select" /\ sl.calls[j].op = "Omit"
               \/ sl.calls[i].op = "Omit" /\ sl.calls[j].op = "Select" )
          => /\ ~sl.calls[j].ok
             /\ sl.calls[j].after = sl.calls[j].before
    /\ \A j \in 1..Len(sl.calls) :
          IF sl.calls[j].op = "Release"
            THEN sl.calls[j].after = SelectorNone
            ELSE sl.calls[j].before.selector # "None"
                   => sl.calls[j].after.selector = sl.calls[j].before.selector

\* C22 witness: Select succeeded, the Omit after it was refused and changed
\* nothing
C22_Witness ==
    /\ Len(sl.calls) >= 2
    /\ sl.calls[1].op = "Select" /\ sl.calls[1].ok
    /\ sl.calls[2].op = "Omit" /\ sl.calls[2].columns = {"lv"}
    /\ ~sl.calls[2].ok
    /\ sl.selector = sl.calls[1].after


\* C23 (as claimed): Is answers by the selector's mode: true exactly for the
\* non-zero fields in mode None, exactly for the listed fields in mode
\* Select and exactly for the fields not listed in mode Omit.
C23_IsByMode ==
    \A j \in 1..Len(sl.calls) :
        LET c == sl.calls[j] IN
        c.op = "Is" =>
            CASE c.before.selector = "None" -> c.ok <=> ~c.isZero
              [] c.before.selector = "Select" ->
                   c.ok <=> c.columns \subseteq c.before.projection.keys
              [] c.before.selector = "Omit" ->
                   c.ok <=> c.columns \cap c.before.projection.keys = {}

\* C23: Is answers true exactly for the non-zero fields while no column is
\* listed (no Select or Omit yet, after Release, or only calls without
\* columns); once a column is listed it answers true exactly for the listed
\* fields in mode Select and exactly for the fields not listed in mode Omit,
\* whatever isZero is.
C23_IsPolicy ==
    \A j \in 1..Len(sl.calls) :
        LET c == sl.calls[j] IN
        c.op = "Is" =>
            IF c.before.projection.keys = {}
              THEN c.ok <=> ~c.isZero
              ELSE IF c.before.selector = "Select"
                     THEN c.ok <=> c.columns \subseteq c.before.projection.keys
                     ELSE /\ c.before.selector = "Omit"
                          /\ c.ok <=> c.columns \cap c.before.projection.keys
                                        = {}

\* C23 witness: under Select("name"), Is answered true for name with a zero
\* value and false for lv with a non-zero value
C23_Witness ==
    /\ Len(sl.calls) = 3
    /\ sl.calls[1].op = "Select" /\ sl.calls[1].columns = {"name"}
    /\ sl.calls[2] = Call("Is", {"name"}, TRUE, TRUE, sl.selector)
    /\ sl.calls[3] = Call("Is", {"lv"}, FALSE, FALSE, sl.selector)


\* the name a key of the caller's Update is looked for under in the result
StoreName(st, k) ==
    IF st.schema /\ LookUpField(k) # "" THEN LookUpField(k) ELSE k

\* C24 (as claimed): Build of an operator-keyed Update keeps every operator
\* the caller supplied and, under it, every field the caller supplied, by
\* its store name when there is a schema; only $setOnInsert loses the keys
\* the re-filtering drops.
C24_UpdatePassesThrough ==
    (up.pc = "done" /\ up.kind = "Update" /\ ~up.err) =>
        /\ \A t \in UpdateOps \ {"$setOnInsert"} :
              up.value[t].has =>
                /\ up.update[t].has
                /\ \A k \in up.value[t].keys :
                      StoreName(up, k) \in up.update[t].keys
        /\ \A k \in up.value["$setOnInsert"].keys :
              \/ StoreName(up, k) \in up.update["$setOnInsert"].keys
              \/ StoreName(up, k) \in Projection(up.update)


\* C25 (as claimed): Multiple answers true for a filter without a primary
\* key, true for one whose primary key is held to an array or to a
\* membership condition, and false for one whose primary key equals a
\* single scalar.
C25_MultipleClassifies ==
    \A i \in 1..Len(qy.multiple) :
        LET id == qy.heap[qy.outs[i].doc][MongoPrimaryName] IN
        /\ id = Absent => qy.multiple[i]
        /\ id.tag \in {"arr", "doc"} => qy.multiple[i]
        /\ id.tag \in {"val", "str"} => ~qy.multiple[i]


\* C26 (as claimed): Where called with a string meant as a field name or as
\* a key value adds exactly one node: a match of the primary key on the
\* string when there is no argument, a condition on the field with one
\* argument (equality for a scalar, membership for a slice), and membership
\* over all the arguments when there are several.
C26_WhereBareString ==
    \A i \in 1..Len(qy.calls) :
        LET c == qy.calls[i] IN
        (c.format.tag = "str" /\ c.format.s \in BareStrings) =>
            /\ c.whereType = "and"
            /\ c.nodes =
                 IF Len(c.cons) = 0
                   THEN <<[t |-> "$", k |-> MongoPrimaryName, v |-> c.format]>>
                   ELSE IF Len(c.cons) = 1
                          THEN <<[t |-> IF c.cons[1].tag = "arr" THEN "$in"
                                                                ELSE "$",
                                  k |-> c.format.s, v |-> c.cons[1]]>>
                          ELSE <<[t |-> "$in", k |-> c.format.s,
                                  v |-> Arr(c.cons)]>>


\* the sub-document one node renders to
RenderNode(model, node) ==
    Deref(build(model, <<EmptyDoc>>, 1, node), Doc(1))

\* the value a written-out document holds under key k; Absent if none
Under(d, k) ==
    IF \E i \in 1..Len(d.elems) : d.elems[i].s = k
      THEN (CHOOSE e \in {d.elems[i] : i \in 1..Len(d.elems)} : e.s = k).elems[1]
      ELSE Absent

\* C27 (as claimed): the document Build returns holds, under the operator
\* key of every composite bucket that has nodes, one sub-document per node,
\* in order, each the rendering of its node alone, whether or not the Query
\* has simple nodes.
C27_CompositeRendered ==
    \A i \in 1..Len(qy.outs) : \A t \in ComplexTypes :
        qy.complex[t] # <<>> =>
            Under(qy.outs[i].was, DollarKey(t))
              = Arr([j \in 1..Len(qy.complex[t]) |->
                        RenderNode(qy.model, qy.complex[t][j])])


\* what the condition strings joined by AND, or of one clause, say: the
\* field and the operator of each clause, in order
ClauseMeaning ==
    "age > ? AND name = ?" :> <<[k |-> "age", t |-> "$gt"],
                                [k |-> "name", t |-> "$"]>>
    @@ "name=?" :> <<[k |-> "name", t |-> "$"]>>
    @@ "age IN ?" :> <<[k |-> "age", t |-> "$in"]>>

\* the value a filter holds under a field constrained once with operator t
Constraint(t, v) ==
    IF t = "$" THEN v
    ELSE [tag |-> "doc", n |-> 0, s |-> "",
          elems |-> <<[tag |-> "key", n |-> 0, s |-> t,
                       elems |-> <<IF t \in operationArray
                                     THEN Arr(ToArray(v)) ELSE v>>]>>]

\* C28: Where with a condition string of clauses joined by AND, and an
\* argument for every "?", adds to q.where one node per clause, with the
\* clause's field and operator and the argument at the clause's position;
\* rendered alone, the Query gives a filter that holds exactly these
\* constraints.
C28_SqlLikeParsing ==
    \A i \in 1..Len(qy.calls) :
        LET c == qy.calls[i]
            m == ClauseMeaning[c.format.s]
        IN (/\ c.format.tag = "str"
            /\ c.format.s \in DOMAIN ClauseMeaning
            /\ Len(c.cons) >= Len(ClauseMeaning[c.format.s])) =>
             /\ c.whereType = "and"
             /\ c.nodes = [j \in 1..Len(m) |->
                             [t |-> m[j].t, k |-> m[j].k, v |-> c.cons[j]]]
             /\ Len(qy.calls) = 1 =>
                  \A o \in 1..Len(qy.outs) :
                      /\ Len(qy.outs[o].was.elems) = Len(m)
                      /\ \A j \in 1..Len(m) :
                            Under(qy.outs[o].was, m[j].k)
                              = Constraint(m[j].t, c.cons[j])

\* C28 witness: Where("age > ? AND name = ?", 18, "John") has been rendered
\* to {age: {$gt: 18}, name: "John"}
C28_Witness ==
    /\ Len(qy.calls) = 1
    /\ qy.calls[1].format = Str("age > ? AND name = ?")
    /\ qy.calls[1].cons = <<Scalar(18), Str("John")>>
    /\ Len(qy.outs) >= 1
    /\ Under(qy.outs[1].was, "age") = Constraint("$gt", Scalar(18))
    /\ Under(qy.outs[1].was, "name") = Str("John")
    /\ Len(qy.outs[1].was.elems) = 2

\* C29: a method called on the root DB works on a new clone and leaves the
\* root's Statement as NewStatement made it, and two chains that started at
\* the same root hold different handles, whose Statements point to different
\* Paging values
C29_CloneIsolation ==
    db.pc = "open" =>
        /\ ~db.handles[db.root].clone
        /\ db.handles[db.root].stmt = NewStatement(db.root)
        /\ \A c \in Chains : \A e \in Chains \ {c} :
               (db.tx[c] # db.root /\ db.tx[e] # db.root) =>
                   /\ db.tx[c] # db.tx[e]
                   /\ db.handles[db.tx[c]].stmt.Paging
                          # db.handles[db.tx[e]].stmt.Paging

\* the steps of a whole processor.Execute, in order
ExecuteSteps == <<"Parse", "table", "pool", "handle">>

\* step e is among the steps the last Execute took
Took(e) == \E i \in 1..Len(db.exec.trace) : db.exec.trace[i] = e

\* C30: Execute runs Parse, then the table check, then PoolManager.Execute and
\* in it the command; when the handle carried an error, Parse failed or no
\* table was resolved, neither PoolManager.Execute nor the command is reached;
\* an error of Parse or of the command is in the handle's Error afterwards
C30_ExecuteOrder ==
    db.exec.tx # 0 =>
        LET x == db.exec IN
        /\ Len(x.trace) >= 1
        /\ x.trace = SubSeq(ExecuteSteps, 1, Len(x.trace))
        /\ (x.before # "" \/ x.parsed # "" \/ x.table = "") =>
               (~Took("pool") /\ ~Took("handle"))
        /\ (x.before = "" /\ x.parsed = "" /\ x.table # "") => Took("pool")
        /\ x.parsed # "" => db.handles[x.tx].Error # ""
        /\ (Took("handle") /\ x.out = "fail") => db.handles[x.tx].Error # ""

\* a chain whose Select met an Omit (or the reverse) reached Execute, which
\* stopped after Parse
C30_Witness ==
    /\ db.exec.tx # 0
    /\ db.exec.before \in {"ErrSelectOnOmitsExist", "ErrOmitOnSelectsExist"}
    /\ db.exec.trace = <<"Parse">>
    /\ db.handles[db.exec.tx].stmt.selector.selector # "None"

C36_DeleteAppliesConds ==
    (db.exec.cmd = "delete" /\ db.exec.conds /\ Took("handle")) =>
        db.exec.filter = "conds"

\* what holds of a recovery run at every point: at most MaxRetries + 1
\* attempts and candidates, no attempt after a candidate passed validation,
\* and no swap once the context was found expired
RecoveryRunBounded ==
    bk.pc # "none" =>
        /\ bk.tries <= MaxRetries + 1
        /\ bk.made <= bk.tries
        /\ (bk.tries > 0 /\ bk.err \in {"nil", "status"}) => bk.pc # "loop"
        /\ bk.expired => (bk.pc = "ret" /\ ~bk.swapped)
        /\ bk.swapped => bk.err = "nil"

\* C32: every recovery run terminates, after at most MaxRetries + 1 candidate
\* clients; it makes no attempt after the first validated candidate, and does
\* not swap once its context has expired
C32_RecoveryTerminates == []RecoveryRunBounded /\ <>(bk.pc = "ret")

\* a run that built MaxRetries + 1 candidates, the last of which passed, and
\* swapped
C32_Witness ==
    /\ bk.pc = "ret"
    /\ bk.made = MaxRetries + 1
    /\ bk.swapped

\* C33: while no loop is inside checkHealth isChecking is clear, and while no
\* thread is inside the body of tryRecover isRecovering is clear; the step in
\* which a check ends (by its result or by a panic) clears isChecking, and
\* the step in which a recovery run ends (swapped, every attempt failed, or
\* context expired) clears isRecovering
C33_FlagsReleased ==
    /\ []((Checking = {} => ~isChecking)
          /\ ((\A t \in Threads : ~Running(t)) => ~isRecovering))
    /\ [][/\ \A l \in Loops :
              (loop[l] = "checking" /\ loop'[l] # "checking") => ~isChecking'
          /\ \A t \in Threads :
              (Running(t) /\ rec'[t].pc = "ret") => ~isRecovering']_vars

\* a health check has ended on a failed probe and the recovery run it
\* started has returned with every attempt failed; both flags are clear
C33_Witness ==
    /\ metrics.TotalChecks = 1
    /\ metrics.FailedChecks = 1
    /\ metrics.RecoveryAttempts = 1
    /\ metrics.SuccessfulRecoveries = 0
    /\ Checking = {}
    /\ ~isChecking
    /\ ~isRecovering
    /\ \E t \in Threads : rec[t].pc = "ret"

\* C34: while an operation that Execute started is in progress, the client
\* it was given has not been disconnected
C34_ClientLiveDuringOp ==
    \A c \in Callers :
        (ex[c].pc = "op" /\ ex[c].cur # NoClient) => ex[c].cur \notin closed

\* C35: at every point FailedChecks <= TotalChecks and SuccessfulRecoveries
\* <= RecoveryAttempts, and no step makes any of the four counters smaller
C35_MetricsMonotone ==
    /\ [](/\ metrics.FailedChecks <= metrics.TotalChecks
          /\ metrics.SuccessfulRecoveries <= metrics.RecoveryAttempts)
    /\ [][\A k \in DOMAIN metrics : metrics'[k] >= metrics[k]]_vars

\* the one health check made has failed and the one recovery run made has
\* succeeded: each pair of counters is equal
C35_Witness ==
    /\ metrics.TotalChecks = 1
    /\ metrics.FailedChecks = 1
    /\ metrics.RecoveryAttempts = 1
    /\ metrics.SuccessfulRecoveries = 1

\* C37: no create or update event delivered to Cache.Listener is dropped:
\* once the call made for such an event has returned, the handle's Reload
\* has been invoked for it, also when the event carries the timestamp of an
\* earlier event or the cache's last applied time
C37_NoEventDropped ==
    \A t \in CacheThreads :
        (ca.th[t].pc = "idle" /\ ca.th[t].kind \in {"create", "update"})
            => ca.th[t].called

\* thread t returns from Cache.Reload with the handle's error in this step
ReloadFailed(t) ==
    /\ ca.th[t].pc = "lock"
    /\ ca'.th[t].pc = "idle"
    /\ ca'.th[t].err = "err"

\* a Reload whose handle returns an error leaves the dataset, the cached
\* cursor and the time as they were
ReloadErrorLeavesCache ==
    [][\A t \in CacheThreads :
          ReloadFailed(t) => /\ ca'.dataset = ca.dataset
                             /\ ca'.cursor = ca.cursor
                             /\ ca'.time = ca.time]_vars

\* C38: Cache.time never decreases, however concurrent Reload calls with
\* different timestamps interleave, and a Reload whose handle returns an
\* error changes neither the dataset nor the cached cursor nor the time
C38_TimeNeverDecreases ==
    /\ [][ca'.time >= ca.time]_vars
    /\ ReloadErrorLeavesCache

====
